---- MODULE Spec2Model ----
(***************************************************************************)
(* A model of the REST resource layer of ot-br-posix                       *)
(* (src/rest/resource.cpp): request dispatch, the diagnostics aggregation  *)
(* engine with its cache mDiagSet, the reply callback and the completion   *)
(* poller.  Time is the steady clock in microseconds; a handler runs at    *)
(* one instant of it (the event loop is single-threaded).                  *)
(***************************************************************************)
EXTENDS Integers, Sequences, FiniteSets, TLC

VARIABLES
    now,         \* steady_clock::now(), microseconds
    mDiagSet,    \* Resource::mDiagSet: key -> DiagInfo
    requests,    \* per connection: the request handed to Handle, or NoRequest
    responses,   \* per connection: the Response object
    queries,     \* diagnostic queries accepted by otThreadSendDiagnosticGet, in order
    flushed,     \* history: per connection, the cache as it was read at the flush
    nReplies,    \* successful reply callbacks delivered so far
    nWarnings,   \* lines logged by otbrLogWarning
    mIp6Enabled, \* the library's otIp6IsEnabled()
    mThreadEnabled, \* the library's Thread protocol enabled state
    mInstance    \* the library instance: commissioner, joiners, datasets, SRP

vars == <<now, mDiagSet, requests, responses, queries, flushed, nReplies, nWarnings,
          mIp6Enabled, mThreadEnabled, mInstance>>

meshVars == <<mIp6Enabled, mThreadEnabled, mInstance>>

-----------------------------------------------------------------------------
(* Program constants *)

kDiagResetTimeout == 3000000

kDiagCollectTimeout == 2000000

kMulticastAddrAllRouters == "ff03::2"

kAllTlvTypes == <<0, 1, 2, 3, 4, 5, 6, 7, 8, 9, 14, 15, 16, 17, 19>>

OT_NETWORK_DIAGNOSTIC_TLV_SHORT_ADDRESS == 1

OT_REST_RESOURCE_PATH_DIAGNOSTICS == "/diagnostics"

OT_REST_RESOURCE_PATH_NODE == "/node"

OT_REST_RESOURCE_PATH_NODE_BAID == "/node/ba-id"

OT_REST_RESOURCE_PATH_NODE_DATASET_ACTIVE == "/node/dataset/active"

OT_REST_RESOURCE_PATH_NODE_DATASET_PENDING == "/node/dataset/pending"

OT_REST_RESOURCE_PATH_NODE_COMMISSIONER_STATE == "/node/commissioner/state"

OT_REST_RESOURCE_PATH_NODE_COMMISSIONER_JOINER == "/node/commissioner/joiner"

OT_REST_RESOURCE_PATH_NODE_SRP_SERVER_STATE == "/node/srp/server/state"

OT_REST_RESOURCE_PATH_NODE_SRP_CLIENT_HOST == "/node/srp/client/host"

OT_REST_RESOURCE_PATH_NODE_SRP_CLIENT_SERVICE == "/node/srp/client/service"

OT_REST_RESOURCE_PATH_NODE_STATE == "/node/state"

-----------------------------------------------------------------------------
(* Bounds of the model *)

\* the clock advances in steps of half the collection window
TimeStep == kDiagCollectTimeout \div 2

\* last instant of the clock, in steps
MaxTime == 5

\* reply callbacks (successful or failed) the library delivers
MaxReplies == 2

\* the connections of the transport, each carrying one request
Conn == {"c1", "c2"}

\* the last instant at which a request is accepted: its window closes within MaxTime
LastStart == MaxTime * TimeStep - kDiagCollectTimeout

-----------------------------------------------------------------------------
(* Status mapper *)

HttpStatusCode == {"kStatusOk", "kStatusCreated", "kStatusNoContent", "kStatusBadRequest",
                   "kStatusResourceNotFound", "kStatusMethodNotAllowed",
                   "kStatusRequestTimeout", "kStatusConflict",
                   "kStatusInternalServerError", "kStatusInsufficientStorage"}

\* faulty variant: a request timeout is reported with the line of a bad request
GetHttpStatus_Merged(aErrorCode) ==
    CASE aErrorCode = "kStatusOk"                  -> "200 OK"
      [] aErrorCode = "kStatusCreated"             -> "201 Created"
      [] aErrorCode = "kStatusNoContent"           -> "204 No Content"
      [] aErrorCode = "kStatusBadRequest"          -> "400 Bad Request"
      [] aErrorCode = "kStatusResourceNotFound"    -> "404 Not Found"
      [] aErrorCode = "kStatusMethodNotAllowed"    -> "405 Method Not Allowed"
      [] aErrorCode = "kStatusRequestTimeout"      -> "400 Bad Request"
      [] aErrorCode = "kStatusConflict"            -> "409 Conflict"
      [] aErrorCode = "kStatusInternalServerError" -> "500 Internal Server Error"
      [] aErrorCode = "kStatusInsufficientStorage" -> "507 Insufficient Storage"
      [] OTHER                                     -> ""

GetHttpStatus(aErrorCode) ==
    CASE aErrorCode = "kStatusOk"                  -> "200 OK"
      [] aErrorCode = "kStatusCreated"             -> "201 Created"
      [] aErrorCode = "kStatusNoContent"           -> "204 No Content"
      [] aErrorCode = "kStatusBadRequest"          -> "400 Bad Request"
      [] aErrorCode = "kStatusResourceNotFound"    -> "404 Not Found"
      [] aErrorCode = "kStatusMethodNotAllowed"    -> "405 Method Not Allowed"
      [] aErrorCode = "kStatusRequestTimeout"      -> "408 Request Timeout"
      [] aErrorCode = "kStatusConflict"            -> "409 Conflict"
      [] aErrorCode = "kStatusInternalServerError" -> "500 Internal Server Error"
      [] aErrorCode = "kStatusInsufficientStorage" -> "507 Insufficient Storage"
      [] OTHER                                     -> ""

-----------------------------------------------------------------------------
(* The Response object *)

\* a start timestamp that was never set
NotSet == -1

\* a body that was never set
NoBody == [kind |-> "none"]

\* Json::Error2JsonString: the error body names the error kind and its status line
Error2JsonString(aErrorCode, aErrorMessage) ==
    [kind |-> "error", code |-> aErrorCode, message |-> aErrorMessage]

\* Json::Diag2JsonString: one element per record, in the order given
Diag2JsonString(aDiagSet) == [kind |-> "diag", set |-> aDiagSet]

\* `altered' records that the code or the body was changed after SetComplete
NewResponse ==
    [code |-> "", body |-> NoBody, complete |-> FALSE, callback |-> FALSE,
     startTime |-> NotSet, altered |-> FALSE]

SetResponsCode(aResponse, aCode) ==
    [aResponse EXCEPT !.code = aCode,
                      !.altered = @ \/ (aResponse.complete /\ aResponse.code # aCode)]

SetBody(aResponse, aBody) ==
    [aResponse EXCEPT !.body = aBody,
                      !.altered = @ \/ (aResponse.complete /\ aResponse.body # aBody)]

SetComplete(aResponse) == [aResponse EXCEPT !.complete = TRUE]

SetCallback(aResponse) == [aResponse EXCEPT !.callback = TRUE]

SetStartTime(aResponse, aTime) == [aResponse EXCEPT !.startTime = aTime]

ErrorHandler(aResponse, aErrorCode) ==
    LET errorMessage == GetHttpStatus(aErrorCode)
        body         == Error2JsonString(aErrorCode, errorMessage)
    IN  SetComplete(SetBody(SetResponsCode(aResponse, errorMessage), body))

-----------------------------------------------------------------------------
(* The diagnostic cache *)

\* faulty variant: a record is dropped only when older than the threshold
DeleteOutDatedDiagnostic_Strict(aDiagSet, aNow) ==
    LET keep == {k \in DOMAIN aDiagSet :
                    ~(aNow - aDiagSet[k].mStartTime > kDiagResetTimeout)}
    IN  [k \in keep |-> aDiagSet[k]]

\* faulty variant: the collection timeout is used as the eviction threshold
DeleteOutDatedDiagnostic_Collect(aDiagSet, aNow) ==
    LET keep == {k \in DOMAIN aDiagSet :
                    ~(aNow - aDiagSet[k].mStartTime >= kDiagCollectTimeout)}
    IN  [k \in keep |-> aDiagSet[k]]

\* faulty variant: once a record is outdated the whole cache is cleared
DeleteOutDatedDiagnostic_All(aDiagSet, aNow) ==
    IF \E k \in DOMAIN aDiagSet : aNow - aDiagSet[k].mStartTime >= kDiagResetTimeout
    THEN <<>>
    ELSE aDiagSet

DeleteOutDatedDiagnostic(aDiagSet, aNow) ==
    LET keep == {k \in DOMAIN aDiagSet :
                    ~(aNow - aDiagSet[k].mStartTime >= kDiagResetTimeout)}
    IN  [k \in keep |-> aDiagSet[k]]

\* faulty variant: the entries of a reply are appended to those already held
UpdateDiag_Merge(aDiagSet, aKey, aDiag, aNow) ==
    LET old   == IF aKey \in DOMAIN aDiagSet THEN aDiagSet[aKey].mDiagContent ELSE <<>>
        value == [mStartTime |-> aNow, mDiagContent |-> old \o aDiag]
    IN  [k \in DOMAIN aDiagSet \cup {aKey} |-> IF k = aKey THEN value ELSE aDiagSet[k]]

\* faulty variant: a record that is overwritten keeps the time of its first reply
UpdateDiag_KeepsTime(aDiagSet, aKey, aDiag, aNow) ==
    LET t     == IF aKey \in DOMAIN aDiagSet THEN aDiagSet[aKey].mStartTime ELSE aNow
        value == [mStartTime |-> t, mDiagContent |-> aDiag]
    IN  [k \in DOMAIN aDiagSet \cup {aKey} |-> IF k = aKey THEN value ELSE aDiagSet[k]]

UpdateDiag(aDiagSet, aKey, aDiag, aNow) ==
    LET value == [mStartTime |-> aNow, mDiagContent |-> aDiag]
    IN  [k \in DOMAIN aDiagSet \cup {aKey} |-> IF k = aKey THEN value ELSE aDiagSet[k]]

-----------------------------------------------------------------------------
(* The reply callback *)

HexDigit == <<"0", "1", "2", "3", "4", "5", "6", "7",
              "8", "9", "a", "b", "c", "d", "e", "f">>

\* faulty variant: only the low byte of the address is printed
FormatRloc_LowByte(aAddr16) ==
    LET a == aAddr16 % 256
        d(n) == HexDigit[(n % 16) + 1]
    IN  "0x" \o d(a \div 16) \o d(a)

\* snprintf(rloc, sizeof(rloc), "0x%04x", mAddr16) on a 16-bit address
FormatRloc(aAddr16) ==
    LET a == aAddr16 % 65536
        d(n) == HexDigit[(n % 16) + 1]
    IN  "0x" \o d(a \div 4096) \o d(a \div 256) \o d(a \div 16) \o d(a)

\* Json::CString2JsonString: the string as a JSON string, in double quotes
CString2JsonString(aString) == "\"" \o aString \o "\""

\* faulty variant: the key of a reply without short address depends on the reply
RECURSIVE KeyRloc_ByLength(_, _)
KeyRloc_ByLength(aMessage, n) ==
    IF n = 0 THEN (IF Len(aMessage) = 0 THEN "0xffee" ELSE "0xfffe")
    ELSE IF aMessage[n].mType = OT_NETWORK_DIAGNOSTIC_TLV_SHORT_ADDRESS
         THEN CString2JsonString(FormatRloc(aMessage[n].mData))
         ELSE KeyRloc_ByLength(aMessage, n - 1)

\* the key left by the loop over the first n TLVs of the message
RECURSIVE KeyRloc(_, _)
KeyRloc(aMessage, n) ==
    IF n = 0 THEN "0xffee"
    ELSE IF aMessage[n].mType = OT_NETWORK_DIAGNOSTIC_TLV_SHORT_ADDRESS
         THEN CString2JsonString(FormatRloc(aMessage[n].mData))
         ELSE KeyRloc(aMessage, n - 1)

\* faulty variant: the short-address entry is used for the key and not stored
RECURSIVE DiagTlvs_SkipsAddress(_, _)
DiagTlvs_SkipsAddress(aMessage, n) ==
    IF n = 0 THEN <<>>
    ELSE IF aMessage[n].mType = OT_NETWORK_DIAGNOSTIC_TLV_SHORT_ADDRESS
         THEN DiagTlvs_SkipsAddress(aMessage, n - 1)
         ELSE Append(DiagTlvs_SkipsAddress(aMessage, n - 1), aMessage[n])

\* the TLVs pushed to diagSet by the loop: all of them, in order
RECURSIVE DiagTlvs(_, _)
DiagTlvs(aMessage, n) ==
    IF n = 0 THEN <<>> ELSE Append(DiagTlvs(aMessage, n - 1), aMessage[n])

Tlv(aType, aData) == [mType |-> aType, mData |-> aData]

\* the replies the mesh delivers: two of the device 0x1200, with the short address
\* first and last, and one that carries no short address
Messages ==
    { <<Tlv(OT_NETWORK_DIAGNOSTIC_TLV_SHORT_ADDRESS, 4608), Tlv(2, 15)>>,
      <<Tlv(2, 11), Tlv(OT_NETWORK_DIAGNOSTIC_TLV_SHORT_ADDRESS, 4608)>>,
      <<Tlv(2, 15)>> }

OtErrors == {"OT_ERROR_NONE", "OT_ERROR_RESPONSE_TIMEOUT"}

\* faulty variant: a reply completes the responses that wait for the callback
DiagnosticResponseHandler_Completes(aError, aMessage) ==
    /\ queries # <<>>
    /\ IF aError = "OT_ERROR_NONE"
       THEN /\ mDiagSet' = UpdateDiag(mDiagSet, KeyRloc(aMessage, Len(aMessage)),
                                      DiagTlvs(aMessage, Len(aMessage)), now)
            /\ nReplies' = nReplies + 1
            /\ UNCHANGED nWarnings
       ELSE /\ nWarnings' = nWarnings + 1
            /\ UNCHANGED <<mDiagSet, nReplies>>
    /\ responses' = [c \in Conn |->
           IF responses[c].callback /\ ~responses[c].complete
           THEN SetComplete(SetResponsCode(responses[c], GetHttpStatus("kStatusOk")))
           ELSE responses[c]]
    /\ UNCHANGED <<now, requests, queries, flushed, meshVars>>

\* faulty variant: the failure code is not tested, and the empty reply is filed
DiagnosticResponseHandler_NoExit(aError, aMessage) ==
    /\ queries # <<>>
    /\ IF aError = "OT_ERROR_NONE"
       THEN /\ mDiagSet' = UpdateDiag(mDiagSet, KeyRloc(aMessage, Len(aMessage)),
                                      DiagTlvs(aMessage, Len(aMessage)), now)
            /\ nReplies' = nReplies + 1
            /\ UNCHANGED nWarnings
       ELSE /\ mDiagSet' = UpdateDiag(mDiagSet, "0xffee", <<>>, now)
            /\ nWarnings' = nWarnings + 1
            /\ UNCHANGED nReplies
    /\ UNCHANGED <<now, requests, responses, queries, flushed, meshVars>>

DiagnosticResponseHandler(aError, aMessage) ==
    /\ queries # <<>>
    /\ IF aError = "OT_ERROR_NONE"
       THEN /\ mDiagSet' = UpdateDiag(mDiagSet, KeyRloc(aMessage, Len(aMessage)),
                                      DiagTlvs(aMessage, Len(aMessage)), now)
            /\ nReplies' = nReplies + 1
            /\ UNCHANGED nWarnings
       ELSE /\ nWarnings' = nWarnings + 1
            /\ UNCHANGED <<mDiagSet, nReplies>>
    /\ UNCHANGED <<now, requests, responses, queries, flushed, meshVars>>

-----------------------------------------------------------------------------
(* Handlers.  A handler returns what it leaves behind: the response, the     *)
(* queries accepted by the library and the library's enabled flags.          *)

\* the service entries of the library's SRP client buffer pool
ServiceBuffers == 2

\* the library instance after initialisation: the commissioner and the SRP server
\* disabled, no joiner, no dataset, no SRP client service, every service entry free.
\* activeTlvs, pendingTlvs: the body a dataset was last written from, empty if none.
\* hostAddresses: "auto", one address, or empty
NoInstance ==
    [commissioner |-> "OT_COMMISSIONER_STATE_DISABLED", joiners |-> {},
     active |-> FALSE, pending |-> FALSE, activeTlvs |-> "", pendingTlvs |-> "",
     srpServer |-> "OT_SRP_SERVER_STATE_DISABLED",
     services |-> {}, buffers |-> ServiceBuffers,
     hostName |-> "", hostAddresses |-> "",
     hostState |-> "OT_SRP_CLIENT_ITEM_STATE_REMOVED"]

\* the size of the buffer otSrpClientBuffersGetHostNameString returns, scaled down
HostNameSize == 4

Outcome(aResponse) ==
    [response |-> aResponse, queries |-> queries,
     ip6 |-> mIp6Enabled, thread |-> mThreadEnabled, instance |-> mInstance]

Query(aConn, aDest) == [conn |-> aConn, dest |-> aDest, tlvs |-> kAllTlvTypes]

\* otIp6AddressFromString on the literal kMulticastAddrAllRouters and on the
\* address of a host
otIp6AddressFromString(aString) ==
    IF aString \in {"ff03::2", "fd00::1"} THEN "OT_ERROR_NONE" ELSE "OT_ERROR_PARSE"

\* faulty variant: the start time and the callback flag are set before the queries
\* are issued
Diagnostic_EarlyStart(aConn, aResponse, aSend1, aSend2) ==
    LET sent1 == aSend1 = "OT_ERROR_NONE"
        q1    == IF sent1 THEN Append(queries, Query(aConn, "rloc")) ELSE queries
        sent2 == sent1 /\ aSend2 = "OT_ERROR_NONE"
        q2    == IF sent2 THEN Append(q1, Query(aConn, kMulticastAddrAllRouters)) ELSE q1
        early == SetCallback(SetStartTime(aResponse, now))
    IN  [Outcome(IF sent1 /\ sent2
                 THEN early
                 ELSE ErrorHandler(early, "kStatusInternalServerError"))
         EXCEPT !.queries = q2]

\* faulty variant: the second query goes to the routing locator as well
Diagnostic_Unicast(aConn, aResponse, aSend1, aSend2) ==
    LET sent1 == aSend1 = "OT_ERROR_NONE"
        q1    == IF sent1 THEN Append(queries, Query(aConn, "rloc")) ELSE queries
        sent2 == sent1 /\ aSend2 = "OT_ERROR_NONE"
        q2    == IF sent2 THEN Append(q1, Query(aConn, "rloc")) ELSE q1
    IN  [Outcome(IF sent1 /\ sent2
                 THEN SetCallback(SetStartTime(aResponse, now))
                 ELSE ErrorHandler(aResponse, "kStatusInternalServerError"))
         EXCEPT !.queries = q2]

\* aSend1, aSend2: what otThreadSendDiagnosticGet returns for the two queries
Diagnostic(aConn, aResponse, aSend1, aSend2) ==
    LET sent1 == aSend1 = "OT_ERROR_NONE"
        q1    == IF sent1 THEN Append(queries, Query(aConn, "rloc")) ELSE queries
        ok2   == sent1 /\ otIp6AddressFromString(kMulticastAddrAllRouters) = "OT_ERROR_NONE"
        sent2 == ok2 /\ aSend2 = "OT_ERROR_NONE"
        q2    == IF sent2 THEN Append(q1, Query(aConn, kMulticastAddrAllRouters)) ELSE q1
        error == IF sent1 /\ ok2 /\ sent2 THEN "OTBR_ERROR_NONE" ELSE "OTBR_ERROR_REST"
    IN  [Outcome(IF error = "OTBR_ERROR_NONE"
                 THEN SetCallback(SetStartTime(aResponse, now))
                 ELSE ErrorHandler(aResponse, "kStatusInternalServerError"))
         EXCEPT !.queries = q2]

\* Json::Node2JsonString: of the node's fields the model keeps the role
Node2JsonString(aRole) == [kind |-> "node", role |-> aRole]

\* Json::Bytes2HexJsonString of the border agent id
Bytes2HexJsonString(aId) == [kind |-> "hex", value |-> aId]

\* GetDeviceRoleName (api_strings.cpp)
GetDeviceRoleName(aRole) ==
    CASE aRole = "OT_DEVICE_ROLE_DISABLED" -> "disabled"
      [] aRole = "OT_DEVICE_ROLE_DETACHED" -> "detached"
      [] aRole = "OT_DEVICE_ROLE_CHILD"    -> "child"
      [] aRole = "OT_DEVICE_ROLE_ROUTER"   -> "router"
      [] aRole = "OT_DEVICE_ROLE_LEADER"   -> "leader"
      [] OTHER                             -> ""

\* Json::String2JsonString
String2JsonString(aString) == [kind |-> "string", value |-> aString]

GetDataState(aResponse, aRole) ==
    Outcome(SetResponsCode(SetBody(aResponse, String2JsonString(GetDeviceRoleName(aRole))),
                           GetHttpStatus("kStatusOk")))

\* aBaId: what otBorderAgentGetId returns
GetNodeInfo(aResponse, aBaId, aRole) ==
    IF aBaId = "OT_ERROR_NONE"
    THEN Outcome(SetResponsCode(SetBody(aResponse, Node2JsonString(GetDeviceRoleName(aRole))),
                                GetHttpStatus("kStatusOk")))
    ELSE Outcome(ErrorHandler(aResponse, "kStatusInternalServerError"))

\* otInstanceErasePersistentInfo: the datasets are the persistent information
ErasePersistentInfo(aInstance) ==
    [aInstance EXCEPT !.active = FALSE, !.pending = FALSE,
                      !.activeTlvs = "", !.pendingTlvs = ""]

\* mHost->Reset(): the instance starts again with its persistent information
Reset(aInstance) ==
    [NoInstance EXCEPT !.active = aInstance.active, !.pending = aInstance.pending,
                       !.activeTlvs = aInstance.activeTlvs,
                       !.pendingTlvs = aInstance.pendingTlvs]

\* faulty variant: the host is reset although the erasure failed
DeleteNodeInfo_ResetsAnyway(aResponse, aDetach, aErase) ==
    IF aDetach # "OT_ERROR_NONE"
    THEN Outcome(ErrorHandler(aResponse, "kStatusConflict"))
    ELSE IF aErase # "OT_ERROR_NONE"
    THEN [Outcome(ErrorHandler(aResponse, "kStatusInternalServerError"))
          EXCEPT !.ip6 = FALSE, !.thread = FALSE, !.instance = Reset(mInstance)]
    ELSE [Outcome(SetResponsCode(aResponse, GetHttpStatus("kStatusOk")))
          EXCEPT !.ip6 = FALSE, !.thread = FALSE,
                 !.instance = Reset(ErasePersistentInfo(mInstance))]

\* aDetach, aErase: what ThreadHelper::Detach and otInstanceErasePersistentInfo
\* return; a successful Detach disables Thread and the IPv6 interface
DeleteNodeInfo(aResponse, aDetach, aErase) ==
    IF aDetach # "OT_ERROR_NONE"
    THEN Outcome(ErrorHandler(aResponse, "kStatusConflict"))
    ELSE IF aErase # "OT_ERROR_NONE"
    THEN [Outcome(ErrorHandler(aResponse, "kStatusInternalServerError"))
          EXCEPT !.ip6 = FALSE, !.thread = FALSE]
    ELSE [Outcome(SetResponsCode(aResponse, GetHttpStatus("kStatusOk")))
          EXCEPT !.ip6 = FALSE, !.thread = FALSE,
                 !.instance = Reset(ErasePersistentInfo(mInstance))]

NodeInfo(aRequest, aResponse, aLib) ==
    CASE aRequest.method = "GET"    -> GetNodeInfo(aResponse, aLib.baId, aLib.role)
      [] aRequest.method = "DELETE" -> DeleteNodeInfo(aResponse, aLib.detach, aLib.erase)
      [] OTHER -> Outcome(ErrorHandler(aResponse, "kStatusMethodNotAllowed"))

GetDataBaId(aResponse, aBaId) ==
    IF aBaId = "OT_ERROR_NONE"
    THEN Outcome(SetResponsCode(SetBody(aResponse, Bytes2HexJsonString("id")),
                                GetHttpStatus("kStatusOk")))
    ELSE Outcome(ErrorHandler(aResponse, "kStatusInternalServerError"))

BaId(aRequest, aResponse, aLib) ==
    IF aRequest.method = "GET"
    THEN GetDataBaId(aResponse, aLib.baId)
    ELSE Outcome(ErrorHandler(aResponse, "kStatusMethodNotAllowed"))

\* Json::JsonString2String: the value of a JSON string; fails on any other text
JsonStrings == ("\"enable\"" :> "enable") @@ ("\"disable\"" :> "disable")
               @@ ("\"reset\"" :> "reset") @@ ("\"*\"" :> "*")

JsonString2String(aBody) ==
    IF aBody \in DOMAIN JsonStrings
    THEN [ok |-> TRUE, value |-> JsonStrings[aBody]]
    ELSE [ok |-> FALSE, value |-> ""]

\* the code from the label exit: on
SetDataStateExit(aResponse, aError) ==
    LET r1 == IF aError = "OTBR_ERROR_INVALID_STATE"
              THEN ErrorHandler(aResponse, "kStatusConflict")
              ELSE aResponse
    IN  IF aError = "OTBR_ERROR_INVALID_ARGS"
        THEN ErrorHandler(r1, "kStatusBadRequest")
        ELSE IF aError # "OTBR_ERROR_NONE"
             THEN ErrorHandler(r1, "kStatusInternalServerError")
             ELSE r1

\* aIp6, aThread: what otIp6SetEnabled and otThreadSetEnabled return
SetDataState(aBody, aResponse, aIp6, aThread) ==
    LET parsed == JsonString2String(aBody)
        ok(e)  == e = "OT_ERROR_NONE"
        done   == SetResponsCode(aResponse, GetHttpStatus("kStatusOk"))
        fail(e) == SetDataStateExit(aResponse, e)
    IN  IF ~parsed.ok THEN Outcome(fail("OTBR_ERROR_INVALID_ARGS"))
        ELSE IF parsed.value = "enable"
        THEN IF ~mIp6Enabled /\ ~ok(aIp6)
             THEN Outcome(fail("OTBR_ERROR_INVALID_STATE"))
             ELSE IF ~ok(aThread)
             THEN [Outcome(fail("OTBR_ERROR_INVALID_STATE")) EXCEPT !.ip6 = TRUE]
             ELSE [Outcome(SetDataStateExit(done, "OTBR_ERROR_NONE"))
                   EXCEPT !.ip6 = TRUE, !.thread = TRUE]
        ELSE IF parsed.value = "disable"
        THEN IF ~ok(aThread)
             THEN Outcome(fail("OTBR_ERROR_INVALID_STATE"))
             ELSE IF ~ok(aIp6)
             THEN [Outcome(fail("OTBR_ERROR_INVALID_STATE")) EXCEPT !.thread = FALSE]
             ELSE [Outcome(SetDataStateExit(done, "OTBR_ERROR_NONE"))
                   EXCEPT !.thread = FALSE, !.ip6 = FALSE]
        ELSE Outcome(fail("OTBR_ERROR_INVALID_ARGS"))

State(aRequest, aResponse, aLib) ==
    CASE aRequest.method = "GET"     -> GetDataState(aResponse, aLib.role)
      [] aRequest.method = "PUT"     -> SetDataState(aRequest.body, aResponse,
                                                     aLib.ip6, aLib.thread)
      [] aRequest.method = "OPTIONS" ->
            Outcome(SetComplete(SetResponsCode(aResponse, GetHttpStatus("kStatusOk"))))
      [] OTHER -> Outcome(ErrorHandler(aResponse, "kStatusMethodNotAllowed"))

\* Request::GetHeaderValue: the value of a header, empty when the request has none
GetHeaderValue(aRequest, aName) ==
    IF aName \in DOMAIN aRequest THEN aRequest[aName] ELSE ""

OT_REST_ACCEPT_HEADER == "Accept"

OT_REST_CONTENT_TYPE_HEADER == "Content-Type"

OT_REST_CONTENT_TYPE_PLAIN == "text/plain"

\* otDatasetGetActive, otDatasetGetActiveTlvs, otDatasetGetPending,
\* otDatasetGetPendingTlvs: whether the instance holds the dataset
DatasetPresent(aDatasetType) ==
    IF aDatasetType = "kActive" THEN mInstance.active ELSE mInstance.pending

\* Utils::Bytes2Hex of the dataset TLVs
Bytes2Hex(aDatasetType) == [kind |-> "hex", dataset |-> aDatasetType]

\* Json::ActiveDataset2JsonString, Json::PendingDataset2JsonString
Dataset2JsonString(aDatasetType) == [kind |-> "dataset", dataset |-> aDatasetType]

\* faulty variant: an absent dataset is answered as an error
GetDataset_ErrorBody(aDatasetType, aRequest, aResponse) ==
    IF ~DatasetPresent(aDatasetType)
    THEN Outcome(ErrorHandler(aResponse, "kStatusResourceNotFound"))
    ELSE Outcome(SetResponsCode(SetBody(aResponse, Dataset2JsonString(aDatasetType)),
                                GetHttpStatus("kStatusOk")))

GetDataset(aDatasetType, aRequest, aResponse) ==
    LET plain == GetHeaderValue(aRequest, OT_REST_ACCEPT_HEADER)
                     = OT_REST_CONTENT_TYPE_PLAIN
        body  == IF plain THEN Bytes2Hex(aDatasetType)
                 ELSE Dataset2JsonString(aDatasetType)
    IN  IF ~DatasetPresent(aDatasetType)
        THEN Outcome(SetResponsCode(aResponse, GetHttpStatus("kStatusNoContent")))
        ELSE Outcome(SetResponsCode(SetBody(aResponse, body), GetHttpStatus("kStatusOk")))

\* the dataset bodies: a hexadecimal TLV string, a JSON dataset without and with a
\* delay timer; any other text is parsed by none of the conversions
HexBodies == {"0e080000000000010000"}

DatasetBodies == {"{\"NetworkName\":\"net\"}", "{\"NetworkName\":\"net\",\"Delay\":30}"}

\* Json::Hex2BytesJsonString >= 0
Hex2BytesJsonString(aBody) == aBody \in HexBodies

\* Json::JsonActiveDatasetString2Dataset
JsonActiveDatasetString2Dataset(aBody) == aBody \in DatasetBodies

\* Json::JsonPendingDatasetString2Dataset and mIsDelayPresent of its result
JsonPendingDatasetString2Dataset(aBody) ==
    [ok |-> aBody \in DatasetBodies,
     mIsDelayPresent |-> aBody = "{\"NetworkName\":\"net\",\"Delay\":30}"]

\* the code from the label exit: on
SetDatasetExit(aResponse, aError) ==
    IF aError = "OTBR_ERROR_INVALID_ARGS"
    THEN ErrorHandler(aResponse, "kStatusBadRequest")
    ELSE IF aError = "OTBR_ERROR_INVALID_STATE"
    THEN ErrorHandler(aResponse, "kStatusConflict")
    ELSE IF aError # "OTBR_ERROR_NONE"
    THEN ErrorHandler(aResponse, "kStatusInternalServerError")
    ELSE aResponse

\* faulty variant: the dataset of a new network is stored as soon as it is created
SetDataset_CreatesFirst(aDatasetType, aRequest, aResponse, aLib) ==
    LET ok(e)     == e = "OT_ERROR_NONE"
        fail(e)   == Outcome(SetDatasetExit(aResponse, e))
        created   == ~DatasetPresent(aDatasetType)
        errorCode == IF created THEN GetHttpStatus("kStatusCreated")
                     ELSE GetHttpStatus("kStatusOk")
        isTlv     == GetHeaderValue(aRequest, OT_REST_CONTENT_TYPE_HEADER)
                         = OT_REST_CONTENT_TYPE_PLAIN
        pending   == JsonPendingDatasetString2Dataset(aRequest.body)
        valid     == IF isTlv THEN Hex2BytesJsonString(aRequest.body)
                     ELSE IF aDatasetType = "kActive"
                     THEN JsonActiveDatasetString2Dataset(aRequest.body)
                     ELSE pending.ok /\ pending.mIsDelayPresent
        stored    == IF aDatasetType = "kActive"
                     THEN [mInstance EXCEPT !.active = TRUE,
                                            !.activeTlvs = aRequest.body]
                     ELSE [mInstance EXCEPT !.pending = TRUE,
                                            !.pendingTlvs = aRequest.body]
        made      == IF aDatasetType = "kActive"
                     THEN [mInstance EXCEPT !.active = TRUE]
                     ELSE [mInstance EXCEPT !.pending = TRUE]
    IN  IF aDatasetType = "kActive" /\ aLib.role # "OT_DEVICE_ROLE_DISABLED"
        THEN fail("OTBR_ERROR_INVALID_STATE")
        ELSE IF created /\ ~ok(aLib.create) THEN fail("OTBR_ERROR_REST")
        ELSE IF ~valid THEN [fail("OTBR_ERROR_INVALID_ARGS") EXCEPT !.instance = made]
        ELSE IF ~ok(aLib.update) THEN [fail("OTBR_ERROR_REST") EXCEPT !.instance = made]
        ELSE IF ~ok(aLib.set) THEN [fail("OTBR_ERROR_REST") EXCEPT !.instance = made]
        ELSE [Outcome(SetDatasetExit(SetResponsCode(aResponse, errorCode),
                                     "OTBR_ERROR_NONE"))
              EXCEPT !.instance = stored]

\* aLib.role: what otThreadGetDeviceRole returns; aLib.create, aLib.update, aLib.set:
\* what otDatasetCreateNewNetwork, otDatasetParseTlvs / otDatasetUpdateTlvs and
\* otDatasetSetActiveTlvs / otDatasetSetPendingTlvs return
SetDataset(aDatasetType, aRequest, aResponse, aLib) ==
    LET ok(e)     == e = "OT_ERROR_NONE"
        fail(e)   == Outcome(SetDatasetExit(aResponse, e))
        created   == ~DatasetPresent(aDatasetType)
        errorCode == IF created THEN GetHttpStatus("kStatusCreated")
                     ELSE GetHttpStatus("kStatusOk")
        isTlv     == GetHeaderValue(aRequest, OT_REST_CONTENT_TYPE_HEADER)
                         = OT_REST_CONTENT_TYPE_PLAIN
        pending   == JsonPendingDatasetString2Dataset(aRequest.body)
        valid     == IF isTlv THEN Hex2BytesJsonString(aRequest.body)
                     ELSE IF aDatasetType = "kActive"
                     THEN JsonActiveDatasetString2Dataset(aRequest.body)
                     ELSE pending.ok /\ pending.mIsDelayPresent
        stored    == IF aDatasetType = "kActive"
                     THEN [mInstance EXCEPT !.active = TRUE,
                                            !.activeTlvs = aRequest.body]
                     ELSE [mInstance EXCEPT !.pending = TRUE,
                                            !.pendingTlvs = aRequest.body]
    IN  IF aDatasetType = "kActive" /\ aLib.role # "OT_DEVICE_ROLE_DISABLED"
        THEN fail("OTBR_ERROR_INVALID_STATE")
        ELSE IF created /\ ~ok(aLib.create) THEN fail("OTBR_ERROR_REST")
        ELSE IF ~valid THEN fail("OTBR_ERROR_INVALID_ARGS")
        ELSE IF ~ok(aLib.update) THEN fail("OTBR_ERROR_REST")
        ELSE IF ~ok(aLib.set) THEN fail("OTBR_ERROR_REST")
        ELSE [Outcome(SetDatasetExit(SetResponsCode(aResponse, errorCode),
                                     "OTBR_ERROR_NONE"))
              EXCEPT !.instance = stored]

Dataset(aDatasetType, aRequest, aResponse, aLib) ==
    CASE aRequest.method = "GET"     -> GetDataset(aDatasetType, aRequest, aResponse)
      [] aRequest.method = "PUT"     -> SetDataset(aDatasetType, aRequest, aResponse, aLib)
      [] aRequest.method = "OPTIONS" ->
            Outcome(SetComplete(SetResponsCode(aResponse, GetHttpStatus("kStatusOk"))))
      [] OTHER -> Outcome(ErrorHandler(aResponse, "kStatusMethodNotAllowed"))

DatasetActive(aRequest, aResponse, aLib) == Dataset("kActive", aRequest, aResponse, aLib)

DatasetPending(aRequest, aResponse, aLib) == Dataset("kPending", aRequest, aResponse, aLib)

\* faulty variant: a state that no case handles is given a name
GetCommissionerStateName_Default(aState) ==
    CASE aState = "OT_COMMISSIONER_STATE_DISABLED" -> "OTBR_COMMISSIONER_STATE_NAME_DISABLED"
      [] aState = "OT_COMMISSIONER_STATE_PETITION" -> "OTBR_COMMISSIONER_STATE_NAME_PETITION"
      [] aState = "OT_COMMISSIONER_STATE_ACTIVE"   -> "OTBR_COMMISSIONER_STATE_NAME_ACTIVE"
      [] OTHER                                     -> "unknown"

\* the names of api_strings.hpp stand for themselves
GetCommissionerStateName(aState) ==
    CASE aState = "OT_COMMISSIONER_STATE_DISABLED" -> "OTBR_COMMISSIONER_STATE_NAME_DISABLED"
      [] aState = "OT_COMMISSIONER_STATE_PETITION" -> "OTBR_COMMISSIONER_STATE_NAME_PETITION"
      [] aState = "OT_COMMISSIONER_STATE_ACTIVE"   -> "OTBR_COMMISSIONER_STATE_NAME_ACTIVE"
      [] OTHER                                     -> ""

GetSrpServerStateName(aState) ==
    CASE aState = "OT_SRP_SERVER_STATE_DISABLED" -> "OTBR_SRP_SERVER_STATE_NAME_DISABLED"
      [] aState = "OT_SRP_SERVER_STATE_RUNNING"  -> "OTBR_SRP_SERVER_STATE_NAME_RUNNING"
      [] aState = "OT_SRP_SERVER_STATE_STOPPED"  -> "OTBR_SRP_SERVER_STATE_NAME_STOPPED"
      [] OTHER                                   -> ""

GetSrpClientItemStateName(aState) ==
    CASE aState = "OT_SRP_CLIENT_ITEM_STATE_TO_ADD" ->
              "OTBR_SRP_CLIENT_ITEM_STATE_NAME_TO_ADD"
      [] aState = "OT_SRP_CLIENT_ITEM_STATE_ADDING" ->
              "OTBR_SRP_CLIENT_ITEM_STATE_NAME_ADDING"
      [] aState = "OT_SRP_CLIENT_ITEM_STATE_TO_REFRESH" ->
              "OTBR_SRP_CLIENT_ITEM_STATE_NAME_TO_REFRESH"
      [] aState = "OT_SRP_CLIENT_ITEM_STATE_REFRESHING" ->
              "OTBR_SRP_CLIENT_ITEM_STATE_NAME_REFRESHING"
      [] aState = "OT_SRP_CLIENT_ITEM_STATE_TO_REMOVE" ->
              "OTBR_SRP_CLIENT_ITEM_STATE_NAME_TO_REMOVE"
      [] aState = "OT_SRP_CLIENT_ITEM_STATE_REMOVING" ->
              "OTBR_SRP_CLIENT_ITEM_STATE_NAME_REMOVING"
      [] aState = "OT_SRP_CLIENT_ITEM_STATE_REGISTERED" ->
              "OTBR_SRP_CLIENT_ITEM_STATE_NAME_REGISTERED"
      [] aState = "OT_SRP_CLIENT_ITEM_STATE_REMOVED" ->
              "OTBR_SRP_CLIENT_ITEM_STATE_NAME_REMOVED"
      [] OTHER -> ""

GetCommissionerState(aResponse) ==
    Outcome(SetResponsCode(
                SetBody(aResponse,
                        String2JsonString(GetCommissionerStateName(mInstance.commissioner))),
                GetHttpStatus("kStatusOk")))

\* the switch after the label exit: of the commissioner handlers
CommissionerExit(aResponse, aError) ==
    CASE aError = "OTBR_ERROR_NONE" ->
              SetResponsCode(aResponse, GetHttpStatus("kStatusOk"))
      [] aError = "OTBR_ERROR_INVALID_STATE" -> ErrorHandler(aResponse, "kStatusConflict")
      [] aError = "OTBR_ERROR_INVALID_ARGS"  -> ErrorHandler(aResponse, "kStatusBadRequest")
      [] OTHER -> ErrorHandler(aResponse, "kStatusInternalServerError")

\* faulty variant: enable and disable call the library whatever the state of the
\* commissioner
SetCommissionerState_Restarts(aRequest, aResponse, aLib) ==
    LET parsed   == JsonString2String(aRequest.body)
        ok(e)    == e = "OT_ERROR_NONE"
        exit(e)  == Outcome(CommissionerExit(aResponse, e))
    IN  IF ~parsed.ok THEN exit("OTBR_ERROR_INVALID_ARGS")
        ELSE IF parsed.value = "enable"
        THEN IF ~ok(aLib.start) THEN exit("OTBR_ERROR_INVALID_STATE")
             ELSE [exit("OTBR_ERROR_NONE") EXCEPT
                      !.instance.commissioner = "OT_COMMISSIONER_STATE_PETITION"]
        ELSE IF parsed.value = "disable"
        THEN IF ~ok(aLib.stop) THEN exit("OTBR_ERROR_INVALID_STATE")
             ELSE [exit("OTBR_ERROR_NONE") EXCEPT
                      !.instance.commissioner = "OT_COMMISSIONER_STATE_DISABLED",
                      !.instance.joiners = {}]
        ELSE exit("OTBR_ERROR_INVALID_ARGS")

\* aLib.start, aLib.stop: what otCommissionerStart and otCommissionerStop return; a
\* started commissioner petitions, a stopped one is disabled
SetCommissionerState(aRequest, aResponse, aLib) ==
    LET parsed   == JsonString2String(aRequest.body)
        ok(e)    == e = "OT_ERROR_NONE"
        exit(e)  == Outcome(CommissionerExit(aResponse, e))
        disabled == mInstance.commissioner = "OT_COMMISSIONER_STATE_DISABLED"
    IN  IF ~parsed.ok THEN exit("OTBR_ERROR_INVALID_ARGS")
        ELSE IF parsed.value = "enable"
        THEN IF ~disabled THEN exit("OTBR_ERROR_NONE")
             ELSE IF ~ok(aLib.start) THEN exit("OTBR_ERROR_INVALID_STATE")
             ELSE [exit("OTBR_ERROR_NONE") EXCEPT
                      !.instance.commissioner = "OT_COMMISSIONER_STATE_PETITION"]
        ELSE IF parsed.value = "disable"
        THEN IF disabled THEN exit("OTBR_ERROR_NONE")
             ELSE IF ~ok(aLib.stop) THEN exit("OTBR_ERROR_INVALID_STATE")
             ELSE [exit("OTBR_ERROR_NONE") EXCEPT
                      !.instance.commissioner = "OT_COMMISSIONER_STATE_DISABLED",
                      !.instance.joiners = {}]
        ELSE exit("OTBR_ERROR_INVALID_ARGS")

CommissionerState(aRequest, aResponse, aLib) ==
    CASE aRequest.method = "GET"     -> GetCommissionerState(aResponse)
      [] aRequest.method = "PUT"     -> SetCommissionerState(aRequest, aResponse, aLib)
      [] aRequest.method = "OPTIONS" ->
            Outcome(SetComplete(SetResponsCode(aResponse, GetHttpStatus("kStatusOk"))))
      [] OTHER -> Outcome(ErrorHandler(aResponse, "kStatusMethodNotAllowed"))

\* Json::JoinerTable2JsonString
JoinerTable2JsonString(aJoiners) == [kind |-> "joiners", set |-> aJoiners]

GetJoiners(aResponse) ==
    Outcome(SetResponsCode(SetBody(aResponse, JoinerTable2JsonString(mInstance.joiners)),
                           GetHttpStatus("kStatusOk")))

\* Json::JsonJoinerInfoString2JoinerInfo: the joiner of a body, of any other text none
JoinerBodies == ("{\"pskd\":\"J01NME\",\"eui64\":\"0000000000000000\"}" :> "*")
                @@ ("{\"pskd\":\"J01NME\",\"eui64\":\"0011223344556677\"}"
                        :> "0011223344556677")

JsonJoinerInfoString2JoinerInfo(aBody) ==
    IF aBody \in DOMAIN JoinerBodies
    THEN [ok |-> TRUE, joiner |-> JoinerBodies[aBody]]
    ELSE [ok |-> FALSE, joiner |-> ""]

\* the nested switch over errorOt under OTBR_ERROR_OPENTHREAD
AddJoinerExit(aResponse, aError, aErrorOt) ==
    IF aError = "OTBR_ERROR_OPENTHREAD"
    THEN CASE aErrorOt = "OT_ERROR_INVALID_ARGS" -> ErrorHandler(aResponse, "kStatusBadRequest")
           [] aErrorOt = "OT_ERROR_NO_BUFS" ->
                  ErrorHandler(aResponse, "kStatusInsufficientStorage")
           [] OTHER -> ErrorHandler(aResponse, "kStatusInternalServerError")
    ELSE CommissionerExit(aResponse, aError)

\* aLib.joiner: what otCommissionerAddJoiner or otCommissionerAddJoinerWithDiscerner
\* returns
AddJoiner(aRequest, aResponse, aLib) ==
    LET parsed == JsonJoinerInfoString2JoinerInfo(aRequest.body)
        exit(e) == Outcome(AddJoinerExit(aResponse, e, aLib.joiner))
    IN  IF mInstance.commissioner # "OT_COMMISSIONER_STATE_ACTIVE"
        THEN exit("OTBR_ERROR_INVALID_STATE")
        ELSE IF ~parsed.ok THEN exit("OTBR_ERROR_INVALID_ARGS")
        ELSE IF aLib.joiner # "OT_ERROR_NONE" THEN exit("OTBR_ERROR_OPENTHREAD")
        ELSE [exit("OTBR_ERROR_NONE") EXCEPT !.instance.joiners = @ \cup {parsed.joiner}]

\* the body is a JSON string: "*" names the joiner of any device; the other strings of
\* JsonStrings are neither a discerner nor the hexadecimal form of an EUI-64.  The
\* result of the removal is not read.
RemoveJoiner(aRequest, aResponse) ==
    LET parsed == JsonString2String(aRequest.body)
        exit(e) == Outcome(CommissionerExit(aResponse, e))
    IN  IF mInstance.commissioner # "OT_COMMISSIONER_STATE_ACTIVE"
        THEN exit("OTBR_ERROR_INVALID_STATE")
        ELSE IF ~parsed.ok THEN exit("OTBR_ERROR_INVALID_ARGS")
        ELSE IF parsed.value # "*" THEN exit("OTBR_ERROR_INVALID_ARGS")
        ELSE [exit("OTBR_ERROR_NONE") EXCEPT !.instance.joiners = @ \ {"*"}]

CommissionerJoiner(aRequest, aResponse, aLib) ==
    CASE aRequest.method = "GET"     -> GetJoiners(aResponse)
      [] aRequest.method = "POST"    -> AddJoiner(aRequest, aResponse, aLib)
      [] aRequest.method = "DELETE"  -> RemoveJoiner(aRequest, aResponse)
      [] aRequest.method = "OPTIONS" ->
            Outcome(SetComplete(SetResponsCode(aResponse, GetHttpStatus("kStatusOk"))))
      [] OTHER -> Outcome(ErrorHandler(aResponse, "kStatusMethodNotAllowed"))

GetSrpServerState(aResponse) ==
    Outcome(SetResponsCode(
                SetBody(aResponse,
                        String2JsonString(GetSrpServerStateName(mInstance.srpServer))),
                GetHttpStatus("kStatusOk")))

\* otSrpServerSetEnabled: an enabled server is stopped until it is selected to run
SetSrpServerState(aRequest, aResponse) ==
    LET parsed == JsonString2String(aRequest.body)
        done   == SetResponsCode(aResponse, GetHttpStatus("kStatusOk"))
    IN  IF ~parsed.ok \/ parsed.value \notin {"enable", "disable"}
        THEN Outcome(ErrorHandler(aResponse, "kStatusBadRequest"))
        ELSE [Outcome(done) EXCEPT
                 !.instance.srpServer = IF parsed.value = "enable"
                                        THEN "OT_SRP_SERVER_STATE_STOPPED"
                                        ELSE "OT_SRP_SERVER_STATE_DISABLED"]

SrpServerState(aRequest, aResponse) ==
    CASE aRequest.method = "GET"     -> GetSrpServerState(aResponse)
      [] aRequest.method = "PUT"     -> SetSrpServerState(aRequest, aResponse)
      [] aRequest.method = "OPTIONS" ->
            Outcome(SetComplete(SetResponsCode(aResponse, GetHttpStatus("kStatusOk"))))
      [] OTHER -> Outcome(ErrorHandler(aResponse, "kStatusMethodNotAllowed"))

\* Json::Services2JsonString: each service with its names and the name of its state
Services2JsonString(aServices) ==
    [kind |-> "services",
     set |-> {[mInstanceName |-> sv.mInstanceName, mName |-> sv.mName,
               state |-> GetSrpClientItemStateName(sv.mState)] : sv \in aServices}]

GetSrpClientServices(aResponse) ==
    Outcome(SetResponsCode(SetBody(aResponse, Services2JsonString(mInstance.services)),
                           GetHttpStatus("kStatusOk")))

\* Json::JsonServiceString2ServiceEntry, Json::JsonServiceString2NameStrings: the
\* names of a body, of any other text none
ServiceBodies ==
    ("{\"instance\":\"printer\",\"name\":\"_ipp._tcp\"}"
         :> [mInstanceName |-> "printer", mName |-> "_ipp._tcp"])
    @@ ("{\"instance\":\"scanner\",\"name\":\"_ipp._tcp\"}"
         :> [mInstanceName |-> "scanner", mName |-> "_ipp._tcp"])

JsonServiceString2NameStrings(aBody) ==
    IF aBody \in DOMAIN ServiceBodies
    THEN [ok |-> TRUE, names |-> ServiceBodies[aBody]]
    ELSE [ok |-> FALSE, names |-> [mInstanceName |-> "", mName |-> ""]]

\* the tests after the label exit: of the SRP client service handlers
SrpClientServiceExit(aResponse, aError) ==
    IF aError = "OTBR_ERROR_INVALID_STATE"
    THEN ErrorHandler(aResponse, "kStatusConflict")
    ELSE IF aError = "OTBR_ERROR_INVALID_ARGS"
    THEN ErrorHandler(aResponse, "kStatusBadRequest")
    ELSE IF aError = "OTBR_ERROR_NOT_FOUND"
    THEN ErrorHandler(aResponse, "kStatusResourceNotFound")
    ELSE IF aError # "OTBR_ERROR_NONE"
    THEN ErrorHandler(aResponse, "kStatusInternalServerError")
    ELSE aResponse

Matches(aService, aNames) ==
    aService.mInstanceName = aNames.mInstanceName /\ aService.mName = aNames.mName

\* faulty variant: the entry is given back only when the body is invalid
AddSrpClientService_KeepsRefused(aRequest, aResponse, aLib) ==
    LET parsed  == JsonServiceString2NameStrings(aRequest.body)
        exit(e) == Outcome(SrpClientServiceExit(aResponse, e))
        added   == [mInstanceName |-> parsed.names.mInstanceName,
                    mName |-> parsed.names.mName,
                    mState |-> "OT_SRP_CLIENT_ITEM_STATE_TO_ADD"]
    IN  IF mInstance.buffers = 0 THEN exit("OTBR_ERROR_ERRNO")
        ELSE IF ~parsed.ok THEN exit("OTBR_ERROR_INVALID_ARGS")
        ELSE IF \/ aLib.service # "OT_ERROR_NONE"
                \/ \E sv \in mInstance.services : Matches(sv, parsed.names)
        THEN [exit("OTBR_ERROR_INVALID_STATE") EXCEPT !.instance.buffers = @ - 1]
        ELSE [Outcome(SrpClientServiceExit(
                          SetResponsCode(aResponse, GetHttpStatus("kStatusOk")),
                          "OTBR_ERROR_NONE"))
              EXCEPT !.instance.services = @ \cup {added},
                     !.instance.buffers = @ - 1]

\* aLib.service: what otSrpClientAddService returns; it refuses a service whose names
\* are in the list.  The entry taken from the pool is given back on every failure.
AddSrpClientService(aRequest, aResponse, aLib) ==
    LET parsed  == JsonServiceString2NameStrings(aRequest.body)
        exit(e) == Outcome(SrpClientServiceExit(aResponse, e))
        added   == [mInstanceName |-> parsed.names.mInstanceName,
                    mName |-> parsed.names.mName,
                    mState |-> "OT_SRP_CLIENT_ITEM_STATE_TO_ADD"]
    IN  IF mInstance.buffers = 0 THEN exit("OTBR_ERROR_ERRNO")
        ELSE IF ~parsed.ok THEN exit("OTBR_ERROR_INVALID_ARGS")
        ELSE IF \/ aLib.service # "OT_ERROR_NONE"
                \/ \E sv \in mInstance.services : Matches(sv, parsed.names)
        THEN exit("OTBR_ERROR_INVALID_STATE")
        ELSE [Outcome(SrpClientServiceExit(
                          SetResponsCode(aResponse, GetHttpStatus("kStatusOk")),
                          "OTBR_ERROR_NONE"))
              EXCEPT !.instance.services = @ \cup {added},
                     !.instance.buffers = @ - 1]

\* aLib.remove: what otSrpClientRemoveService returns; a removed service stays in the
\* list, marked for removal
DeleteSrpClientService(aRequest, aResponse, aLib) ==
    LET parsed  == JsonServiceString2NameStrings(aRequest.body)
        exit(e) == Outcome(SrpClientServiceExit(aResponse, e))
        found   == {sv \in mInstance.services : Matches(sv, parsed.names)}
        marked  == {IF sv \in found
                    THEN [sv EXCEPT !.mState = "OT_SRP_CLIENT_ITEM_STATE_TO_REMOVE"]
                    ELSE sv : sv \in mInstance.services}
    IN  IF ~parsed.ok THEN exit("OTBR_ERROR_INVALID_ARGS")
        ELSE IF found = {} THEN exit("OTBR_ERROR_NOT_FOUND")
        ELSE IF aLib.remove # "OT_ERROR_NONE" THEN exit("OTBR_ERROR_INVALID_STATE")
        ELSE [Outcome(SrpClientServiceExit(
                          SetResponsCode(aResponse, GetHttpStatus("kStatusOk")),
                          "OTBR_ERROR_NONE"))
              EXCEPT !.instance.services = marked]

\* Json::HostInfo2JsonString: the name, the addresses and the name of the state
HostInfo2JsonString(aInstance) ==
    [kind |-> "host", name |-> aInstance.hostName, addresses |-> aInstance.hostAddresses,
     state |-> GetSrpClientItemStateName(aInstance.hostState)]

GetSrpClientHost(aResponse) ==
    Outcome(SetResponsCode(SetBody(aResponse, HostInfo2JsonString(mInstance)),
                           GetHttpStatus("kStatusOk")))

\* Json::jsonHostString2Strings: the name and the address of a body, of any other
\* text none
HostBodies ==
    ("{\"name\":\"br\",\"address\":\"auto\"}" :> [name |-> "br", address |-> "auto"])
    @@ ("{\"name\":\"gw\",\"address\":\"fd00::1\"}"
           :> [name |-> "gw", address |-> "fd00::1"])
    @@ ("{\"name\":\"gw\",\"address\":\"fd00::g\"}"
           :> [name |-> "gw", address |-> "fd00::g"])
    @@ ("{\"name\":\"router\",\"address\":\"auto\"}"
           :> [name |-> "router", address |-> "auto"])

jsonHostString2Strings(aBody) ==
    IF aBody \in DOMAIN HostBodies
    THEN [ok |-> TRUE, name |-> HostBodies[aBody].name,
          address |-> HostBodies[aBody].address]
    ELSE [ok |-> FALSE, name |-> "", address |-> ""]

\* the tests after the label exit: of SetSrpClientHost
SrpClientHostExit(aResponse, aError) ==
    IF aError = "OTBR_ERROR_INVALID_STATE"
    THEN ErrorHandler(aResponse, "kStatusConflict")
    ELSE IF aError = "OTBR_ERROR_INVALID_ARGS"
    THEN ErrorHandler(aResponse, "kStatusBadRequest")
    ELSE IF aError = "OTBR_ERROR_NOT_IMPLEMENTED"
    THEN ErrorHandler(aResponse, "kStatusMethodNotAllowed")
    ELSE IF aError # "OTBR_ERROR_NONE"
    THEN ErrorHandler(aResponse, "kStatusInternalServerError")
    ELSE aResponse

\* aLib.auto, aLib.addresses, aLib.hostName: what otSrpClientEnableAutoHostAddress,
\* otSrpClientSetHostAddresses and otSrpClientSetHostName return.  The addresses are
\* set before the name is tried.
SetSrpClientHost(aRequest, aResponse, aLib) ==
    LET parsed    == jsonHostString2Strings(aRequest.body)
        ok(e)     == e = "OT_ERROR_NONE"
        exit(e)   == Outcome(SrpClientHostExit(aResponse, e))
        addressed == [mInstance EXCEPT !.hostAddresses = parsed.address]
        named     == [addressed EXCEPT !.hostName = parsed.name,
                                       !.hostState = "OT_SRP_CLIENT_ITEM_STATE_TO_ADD"]
    IN  IF ~parsed.ok THEN exit("OTBR_ERROR_INVALID_ARGS")
        ELSE IF ~(Len(parsed.name) + 1 <= HostNameSize) THEN exit("OTBR_ERROR_INVALID_ARGS")
        ELSE IF parsed.address = "auto" /\ ~ok(aLib.auto)
        THEN exit("OTBR_ERROR_INVALID_STATE")
        ELSE IF parsed.address # "auto" /\ ~ok(otIp6AddressFromString(parsed.address))
        THEN exit("OTBR_ERROR_INVALID_ARGS")
        ELSE IF parsed.address # "auto" /\ ~ok(aLib.addresses)
        THEN exit("OTBR_ERROR_INVALID_STATE")
        ELSE IF ~ok(aLib.hostName)
        THEN [exit("OTBR_ERROR_INVALID_STATE") EXCEPT !.instance = addressed]
        ELSE [Outcome(SrpClientHostExit(
                          SetResponsCode(aResponse, GetHttpStatus("kStatusOk")),
                          "OTBR_ERROR_NONE"))
              EXCEPT !.instance = named]

\* aLib.removeHost: what otSrpClientRemoveHostAndServices returns; the host and its
\* services are marked for removal
DeleteSrpClientHost(aResponse, aLib) ==
    IF aLib.removeHost # "OT_ERROR_NONE"
    THEN Outcome(ErrorHandler(aResponse, "kStatusConflict"))
    ELSE [Outcome(SetResponsCode(aResponse, GetHttpStatus("kStatusOk")))
          EXCEPT !.instance.hostState = "OT_SRP_CLIENT_ITEM_STATE_TO_REMOVE",
                 !.instance.services =
                     {[sv EXCEPT !.mState = "OT_SRP_CLIENT_ITEM_STATE_TO_REMOVE"] :
                          sv \in mInstance.services}]

SrpClientHost(aRequest, aResponse, aLib) ==
    CASE aRequest.method = "GET"     -> GetSrpClientHost(aResponse)
      [] aRequest.method = "PUT"     -> SetSrpClientHost(aRequest, aResponse, aLib)
      [] aRequest.method = "DELETE"  -> DeleteSrpClientHost(aResponse, aLib)
      [] aRequest.method = "OPTIONS" ->
            Outcome(SetComplete(SetResponsCode(aResponse, GetHttpStatus("kStatusOk"))))
      [] OTHER -> Outcome(ErrorHandler(aResponse, "kStatusMethodNotAllowed"))

SrpClientService(aRequest, aResponse, aLib) ==
    CASE aRequest.method = "GET"     -> GetSrpClientServices(aResponse)
      [] aRequest.method = "POST"    -> AddSrpClientService(aRequest, aResponse, aLib)
      [] aRequest.method = "DELETE"  -> DeleteSrpClientService(aRequest, aResponse, aLib)
      [] aRequest.method = "OPTIONS" ->
            Outcome(SetComplete(SetResponsCode(aResponse, GetHttpStatus("kStatusOk"))))
      [] OTHER -> Outcome(ErrorHandler(aResponse, "kStatusMethodNotAllowed"))

-----------------------------------------------------------------------------
(* Dispatch *)

NoRequest == [body |-> "", method |-> "", url |-> ""]

\* the paths of mResourceMap that are modelled
mResourceMap == {OT_REST_RESOURCE_PATH_DIAGNOSTICS, OT_REST_RESOURCE_PATH_NODE,
                 OT_REST_RESOURCE_PATH_NODE_BAID, OT_REST_RESOURCE_PATH_NODE_STATE,
                 OT_REST_RESOURCE_PATH_NODE_DATASET_ACTIVE,
                 OT_REST_RESOURCE_PATH_NODE_DATASET_PENDING,
                 OT_REST_RESOURCE_PATH_NODE_COMMISSIONER_STATE,
                 OT_REST_RESOURCE_PATH_NODE_COMMISSIONER_JOINER,
                 OT_REST_RESOURCE_PATH_NODE_SRP_SERVER_STATE,
                 OT_REST_RESOURCE_PATH_NODE_SRP_CLIENT_HOST,
                 OT_REST_RESOURCE_PATH_NODE_SRP_CLIENT_SERVICE}

\* the handlers of the paths other than diagnostics, /node, /node/ba-id and /node/state
MeshHandler(aRequest, aResponse, aLib) ==
    CASE aRequest.url = OT_REST_RESOURCE_PATH_NODE_DATASET_ACTIVE ->
              DatasetActive(aRequest, aResponse, aLib)
      [] aRequest.url = OT_REST_RESOURCE_PATH_NODE_DATASET_PENDING ->
              DatasetPending(aRequest, aResponse, aLib)
      [] aRequest.url = OT_REST_RESOURCE_PATH_NODE_COMMISSIONER_STATE ->
              CommissionerState(aRequest, aResponse, aLib)
      [] aRequest.url = OT_REST_RESOURCE_PATH_NODE_COMMISSIONER_JOINER ->
              CommissionerJoiner(aRequest, aResponse, aLib)
      [] aRequest.url = OT_REST_RESOURCE_PATH_NODE_SRP_SERVER_STATE ->
              SrpServerState(aRequest, aResponse)
      [] aRequest.url = OT_REST_RESOURCE_PATH_NODE_SRP_CLIENT_HOST ->
              SrpClientHost(aRequest, aResponse, aLib)
      [] aRequest.url = OT_REST_RESOURCE_PATH_NODE_SRP_CLIENT_SERVICE ->
              SrpClientService(aRequest, aResponse, aLib)

mResourceCallbackMap == {OT_REST_RESOURCE_PATH_DIAGNOSTICS}

\* faulty variant: a trailing slash or a further segment of the path is ignored
Dispatch_Prefix(aConn, aRequest, aResponse, aLib) ==
    CASE aRequest.url \in {"/diagnostics", "/diagnostics/x"} ->
              Diagnostic(aConn, aResponse, aLib.send1, aLib.send2)
      [] aRequest.url \in {"/node/state", "/node/state/"} ->
              State(aRequest, aResponse, aLib)
      [] aRequest.url = "/node" -> NodeInfo(aRequest, aResponse, aLib)
      [] aRequest.url = "/node/ba-id" -> BaId(aRequest, aResponse, aLib)
      [] aRequest.url \in mResourceMap -> MeshHandler(aRequest, aResponse, aLib)
      [] OTHER -> Outcome(ErrorHandler(aResponse, "kStatusResourceNotFound"))

\* Resource::Handle without its guard: the outcome of dispatching the request
Dispatch(aConn, aRequest, aResponse, aLib) ==
    IF aRequest.url \in mResourceMap
    THEN CASE aRequest.url = OT_REST_RESOURCE_PATH_DIAGNOSTICS ->
                  Diagnostic(aConn, aResponse, aLib.send1, aLib.send2)
           [] aRequest.url = OT_REST_RESOURCE_PATH_NODE ->
                  NodeInfo(aRequest, aResponse, aLib)
           [] aRequest.url = OT_REST_RESOURCE_PATH_NODE_BAID ->
                  BaId(aRequest, aResponse, aLib)
           [] aRequest.url = OT_REST_RESOURCE_PATH_NODE_STATE ->
                  State(aRequest, aResponse, aLib)
           [] OTHER -> MeshHandler(aRequest, aResponse, aLib)
    ELSE Outcome(ErrorHandler(aResponse, "kStatusResourceNotFound"))

\* faulty variant: a diagnostics request starts its round with an empty cache
Handle_ResetsCache(aConn, aRequest, aLib) ==
    /\ LET out == Dispatch(aConn, aRequest, responses[aConn], aLib)
       IN  /\ responses' = [responses EXCEPT ![aConn] = out.response]
           /\ queries' = out.queries
           /\ mIp6Enabled' = out.ip6
           /\ mThreadEnabled' = out.thread
           /\ mInstance' = out.instance
    /\ mDiagSet' = IF aRequest.url = OT_REST_RESOURCE_PATH_DIAGNOSTICS
                   THEN <<>> ELSE mDiagSet
    /\ UNCHANGED <<now, flushed, nReplies, nWarnings>>

Handle(aConn, aRequest, aLib) ==
    /\ LET out == Dispatch(aConn, aRequest, responses[aConn], aLib)
       IN  /\ responses' = [responses EXCEPT ![aConn] = out.response]
           /\ queries' = out.queries
           /\ mIp6Enabled' = out.ip6
           /\ mThreadEnabled' = out.thread
           /\ mInstance' = out.instance
    /\ UNCHANGED <<now, mDiagSet, flushed, nReplies, nWarnings>>

\* the transport hands the request of a connection to Handle, once
Deliver(aConn, aRequest, aLib) ==
    /\ requests[aConn] = NoRequest
    /\ now <= LastStart
    /\ requests' = [requests EXCEPT ![aConn] = aRequest]
    /\ Handle(aConn, aRequest, aLib)

-----------------------------------------------------------------------------
(* The completion poller *)

\* the orders in which an unordered map of the keys S may be iterated
Orders(S) ==
    {o \in [1..Cardinality(S) -> S] : \A i, j \in 1..Cardinality(S) : o[i] = o[j] => i = j}

\* history of a flush: its instant, the cache it read, and the callbacks delivered
\* and the queries accepted before it
NotFlushed == [time |-> NotSet, set |-> <<>>, replies |-> 0, warnings |-> 0, queries |-> 0]

\* faulty variant: a response is given only the records received after its start
FlushDiagnostic_Isolated(aConn, aOrder) ==
    LET aResponse      == responses[aConn]
        set            == DeleteOutDatedDiagnostic(mDiagSet, now)
        own            == {k \in DOMAIN set : set[k].mStartTime > aResponse.startTime}
        diagContentSet == [i \in 1..Len(aOrder) |-> set[aOrder[i]].mDiagContent]
        body           == Diag2JsonString(diagContentSet)
        errorCode      == GetHttpStatus("kStatusOk")
    IN  /\ aOrder \in Orders(own)
        /\ mDiagSet' = set
        /\ responses' = [responses EXCEPT ![aConn] =
               SetComplete(SetBody(SetResponsCode(aResponse, errorCode), body))]
        /\ flushed' = [flushed EXCEPT ![aConn] =
               [time |-> now, set |-> [k \in own |-> set[k]],
                replies |-> nReplies, warnings |-> nWarnings,
                queries |-> Len(queries)]]

\* faulty variant: the cache is read before the outdated records are deleted
FlushDiagnostic_ReadsFirst(aConn, aOrder) ==
    LET aResponse      == responses[aConn]
        set            == DeleteOutDatedDiagnostic(mDiagSet, now)
        diagContentSet == [i \in 1..Len(aOrder) |-> mDiagSet[aOrder[i]].mDiagContent]
        body           == Diag2JsonString(diagContentSet)
        errorCode      == GetHttpStatus("kStatusOk")
    IN  /\ aOrder \in Orders(DOMAIN mDiagSet)
        /\ mDiagSet' = set
        /\ responses' = [responses EXCEPT ![aConn] =
               SetComplete(SetBody(SetResponsCode(aResponse, errorCode), body))]
        /\ flushed' = [flushed EXCEPT ![aConn] =
               [time |-> now, set |-> mDiagSet,
                replies |-> nReplies, warnings |-> nWarnings,
                queries |-> Len(queries)]]

\* faulty variant: the records handed to a response are taken out of the cache
FlushDiagnostic_Drains(aConn, aOrder) ==
    LET aResponse      == responses[aConn]
        set            == DeleteOutDatedDiagnostic(mDiagSet, now)
        diagContentSet == [i \in 1..Len(aOrder) |-> set[aOrder[i]].mDiagContent]
        body           == Diag2JsonString(diagContentSet)
        errorCode      == GetHttpStatus("kStatusOk")
    IN  /\ aOrder \in Orders(DOMAIN set)
        /\ mDiagSet' = <<>>
        /\ responses' = [responses EXCEPT ![aConn] =
               SetComplete(SetBody(SetResponsCode(aResponse, errorCode), body))]
        /\ flushed' = [flushed EXCEPT ![aConn] =
               [time |-> now, set |-> set,
                replies |-> nReplies, warnings |-> nWarnings,
                queries |-> Len(queries)]]

\* lines 217 to 228: evict, read the cache in the order aOrder, complete the response
FlushDiagnostic(aConn, aOrder) ==
    LET aResponse      == responses[aConn]
        set            == DeleteOutDatedDiagnostic(mDiagSet, now)
        diagContentSet == [i \in 1..Len(aOrder) |-> set[aOrder[i]].mDiagContent]
        body           == Diag2JsonString(diagContentSet)
        errorCode      == GetHttpStatus("kStatusOk")
    IN  /\ aOrder \in Orders(DOMAIN set)
        /\ mDiagSet' = set
        /\ responses' = [responses EXCEPT ![aConn] =
               SetComplete(SetBody(SetResponsCode(aResponse, errorCode), body))]
        /\ flushed' = [flushed EXCEPT ![aConn] =
               [time |-> now, set |-> set,
                replies |-> nReplies, warnings |-> nWarnings,
                queries |-> Len(queries)]]

\* a poll that finds nothing to do
NoFlush(aOrder) ==
    /\ aOrder = <<>>
    /\ UNCHANGED <<mDiagSet, responses, flushed>>

\* faulty variant: the window closes only after the collection timeout has passed
HandleDiagnosticCallback_Late(aConn, aOrder) ==
    LET duration == now - responses[aConn].startTime
    IN  IF duration > kDiagCollectTimeout
        THEN FlushDiagnostic(aConn, aOrder)
        ELSE NoFlush(aOrder)

\* faulty variant: the outdated records are deleted on every tick
HandleDiagnosticCallback_Evicts(aConn, aOrder) ==
    LET duration == now - responses[aConn].startTime
    IN  IF duration >= kDiagCollectTimeout
        THEN FlushDiagnostic(aConn, aOrder)
        ELSE /\ aOrder = <<>>
             /\ mDiagSet' = DeleteOutDatedDiagnostic(mDiagSet, now)
             /\ UNCHANGED <<responses, flushed>>

\* faulty variant: a response that finds in the cache a record received before its
\* start is completed at once
HandleDiagnosticCallback_WarmCache(aConn, aOrder) ==
    LET duration == now - responses[aConn].startTime
        warm     == \E k \in DOMAIN mDiagSet :
                        mDiagSet[k].mStartTime < responses[aConn].startTime
    IN  IF duration >= kDiagCollectTimeout \/ warm
        THEN FlushDiagnostic(aConn, aOrder)
        ELSE NoFlush(aOrder)

\* aOrder: the iteration order of mDiagSet after the eviction
HandleDiagnosticCallback(aConn, aOrder) ==
    LET duration == now - responses[aConn].startTime
    IN  IF duration >= kDiagCollectTimeout
        THEN FlushDiagnostic(aConn, aOrder)
        ELSE NoFlush(aOrder)

\* faulty variant: the diagnostics callback runs for the response of any path
HandleCallback_All(aConn, aOrder) ==
    /\ HandleDiagnosticCallback(aConn, aOrder)
    /\ UNCHANGED <<now, requests, queries, nReplies, nWarnings, meshVars>>

\* faulty variant: the lookup in mResourceCallbackMap misses every path
HandleCallback_Miss(aConn, aOrder) ==
    /\ NoFlush(aOrder)
    /\ UNCHANGED <<now, requests, queries, nReplies, nWarnings, meshVars>>

HandleCallback(aConn, aOrder) ==
    /\ IF requests[aConn].url \in mResourceCallbackMap
       THEN HandleDiagnosticCallback(aConn, aOrder)
       ELSE NoFlush(aOrder)
    /\ UNCHANGED <<now, requests, queries, nReplies, nWarnings, meshVars>>

\* the steady clock advances
Advance ==
    /\ now + TimeStep <= MaxTime * TimeStep
    /\ now' = now + TimeStep
    /\ UNCHANGED <<mDiagSet, requests, responses, queries, flushed, nReplies, nWarnings,
                   meshVars>>

-----------------------------------------------------------------------------
(* Specifications *)

\* the replies of the end-to-end scenario: the device 0x1200 answers first and last,
\* the device 0x3400 in between; the entries of each reply are one of three
Reply1Messages ==
    {<<Tlv(OT_NETWORK_DIAGNOSTIC_TLV_SHORT_ADDRESS, 4608), Tlv(2, x)>> : x \in {11, 12, 13}}

Reply2Messages ==
    {<<Tlv(OT_NETWORK_DIAGNOSTIC_TLV_SHORT_ADDRESS, 13312), Tlv(2, x)>> : x \in {21, 22, 23}}

Reply3Messages ==
    {<<Tlv(2, x), Tlv(OT_NETWORK_DIAGNOSTIC_TLV_SHORT_ADDRESS, 4608), Tlv(3, 7)>> :
        x \in {31, 32, 33}}

ScenarioMessages == <<Reply1Messages, Reply2Messages, Reply3Messages>>

Keys == {KeyRloc(m, Len(m)) : m \in Messages \cup Reply1Messages \cup Reply2Messages}

KeyOrders == UNION {Orders(S) : S \in SUBSET Keys}

NoLib == [send1 |-> "OT_ERROR_NONE", send2 |-> "OT_ERROR_NONE",
          ip6 |-> "OT_ERROR_NONE", thread |-> "OT_ERROR_NONE",
          role |-> "OT_DEVICE_ROLE_DISABLED",
          baId |-> "OT_ERROR_NONE", detach |-> "OT_ERROR_NONE", erase |-> "OT_ERROR_NONE",
          create |-> "OT_ERROR_NONE", update |-> "OT_ERROR_NONE", set |-> "OT_ERROR_NONE",
          start |-> "OT_ERROR_NONE", stop |-> "OT_ERROR_NONE",
          joiner |-> "OT_ERROR_NONE", service |-> "OT_ERROR_NONE",
          remove |-> "OT_ERROR_NONE",
          auto |-> "OT_ERROR_NONE", addresses |-> "OT_ERROR_NONE",
          hostName |-> "OT_ERROR_NONE", removeHost |-> "OT_ERROR_NONE"]

SendResults == {"OT_ERROR_NONE", "OT_ERROR_NO_BUFS"}

\* the diagnostics GET with each outcome of the two query issuances
DiagRequest == [body |-> "", method |-> "GET", url |-> OT_REST_RESOURCE_PATH_DIAGNOSTICS]

DiagLibs == {[NoLib EXCEPT !.send1 = s1, !.send2 = s2] : s1, s2 \in SendResults}

Init ==
    /\ now = 0
    /\ mDiagSet = <<>>
    /\ requests = [c \in Conn |-> NoRequest]
    /\ responses = [c \in Conn |-> NewResponse]
    /\ queries = <<>>
    /\ flushed = [c \in Conn |-> NotFlushed]
    /\ nReplies = 0
    /\ nWarnings = 0
    /\ mIp6Enabled = FALSE
    /\ mThreadEnabled = FALSE
    /\ mInstance = NoInstance

Request == \E c \in Conn, lib \in DiagLibs : Deliver(c, DiagRequest, lib)

\* the mesh delivers a reply to a query, or reports its failure
Reply ==
    /\ nReplies + nWarnings < MaxReplies
    /\ \E e \in OtErrors, m \in Messages : DiagnosticResponseHandler(e, m)

\* a tick of the event loop on an outstanding response: one whose request was
\* handled and that is not complete
PollConn(c) ==
    /\ requests[c] # NoRequest
    /\ ~responses[c].complete
    /\ \E o \in KeyOrders : HandleCallback(c, o)

Poll == \E c \in Conn : PollConn(c)

Next == Request \/ Reply \/ Poll \/ Advance

\* the diagnostics engine: diagnostics requests, replies, poll ticks and the clock
Spec == Init /\ [][Next]_vars

\* a tick has completed a response and has not yet polled another that is due
TickOpen ==
    \E c, d \in Conn :
        /\ responses[c].callback /\ responses[c].complete /\ flushed[c].time = now
        /\ responses[d].callback /\ ~responses[d].complete
        /\ now - responses[d].startTime >= kDiagCollectTimeout

NextTick == (~TickOpen /\ (Request \/ Reply \/ Advance)) \/ Poll

\* the diagnostics engine under an event loop whose tick polls every outstanding
\* response before a request, a reply or the clock goes on
SpecTick == Init /\ [][NextTick]_vars

\* replies that carry no short address, and failures
NoAddressMessages == {<<Tlv(2, 15)>>, <<>>}

ReplyNoAddress ==
    /\ nReplies + nWarnings < MaxReplies
    /\ \E e \in OtErrors, m \in NoAddressMessages : DiagnosticResponseHandler(e, m)

NextFair == Request \/ ReplyNoAddress \/ Poll \/ Advance

\* the diagnostics engine with a clock that keeps advancing and an event loop that
\* keeps polling every outstanding response
FairSpec ==
    /\ Init /\ [][NextFair]_vars
    /\ WF_vars(Advance)
    /\ \A c \in Conn : WF_vars(PollConn(c))

\* the clock of the scenario advances in steps of 100 ms
ScenarioStep == kDiagCollectTimeout \div 20

\* the instants of the three replies: 100 ms, 500 ms and 1900 ms
ScenarioAt == <<ScenarioStep, 5 * ScenarioStep, 19 * ScenarioStep>>

\* a second request may arrive at 600 ms, after the second reply
ScenarioSecondAt == 6 * ScenarioStep

ScenarioRequest ==
    \/ /\ now = 0
       /\ Deliver("c1", DiagRequest, NoLib)
    \/ /\ now = ScenarioSecondAt
       /\ nReplies = 2
       /\ Deliver("c2", DiagRequest, NoLib)

ScenarioReply ==
    /\ nReplies < Len(ScenarioAt)
    /\ now = ScenarioAt[nReplies + 1]
    /\ \E m \in ScenarioMessages[nReplies + 1] : DiagnosticResponseHandler("OT_ERROR_NONE", m)

\* the clock does not pass the first request, a reply that is due, or the deadline of
\* a pending response: the event loop polls a response that is due
ScenarioAdvance ==
    /\ requests["c1"] # NoRequest
    /\ now < ScenarioSecondAt + kDiagCollectTimeout
    /\ nReplies < Len(ScenarioAt) => now < ScenarioAt[nReplies + 1]
    /\ \A c \in Conn : responses[c].callback /\ ~responses[c].complete =>
           now < responses[c].startTime + kDiagCollectTimeout
    /\ now' = now + ScenarioStep
    /\ UNCHANGED <<mDiagSet, requests, responses, queries, flushed, nReplies, nWarnings,
                   meshVars>>

NextScenario == ScenarioRequest \/ ScenarioReply \/ Poll \/ ScenarioAdvance

\* a diagnostics request at 0, three replies at fixed instants, poll ticks at any
\* instant, and possibly a second request while the first is pending
SpecScenario == Init /\ [][NextScenario]_vars

\* a fixed sequence of replies: at 0 under the key 0x1200, at 1 s under 0x3400, at 4 s
\* under 0x1200 again
ReplayAt == <<0, TimeStep, 4 * TimeStep>>

ReplayMessages ==
    <<<<Tlv(OT_NETWORK_DIAGNOSTIC_TLV_SHORT_ADDRESS, 4608), Tlv(2, 11)>>,
      <<Tlv(OT_NETWORK_DIAGNOSTIC_TLV_SHORT_ADDRESS, 13312), Tlv(2, 21)>>,
      <<Tlv(2, 31), Tlv(OT_NETWORK_DIAGNOSTIC_TLV_SHORT_ADDRESS, 4608)>>>>

\* diagnostics requests whose queries are accepted, at any instant
ReplayRequest == \E c \in Conn : Deliver(c, DiagRequest, NoLib)

ReplayReply ==
    /\ nReplies < Len(ReplayAt)
    /\ now = ReplayAt[nReplies + 1]
    /\ DiagnosticResponseHandler("OT_ERROR_NONE", ReplayMessages[nReplies + 1])

\* the clock does not pass a reply that is due
ReplayAdvance ==
    /\ nReplies < Len(ReplayAt) => now < ReplayAt[nReplies + 1]
    /\ Advance

NextReplay == ReplayRequest \/ ReplayReply \/ Poll \/ ReplayAdvance

\* the replies arrive as fixed; requests and poll ticks come at any instant
SpecReplay == Init /\ [][NextReplay]_vars

\* requests on /node/state and on an unregistered path
Roles == IF mThreadEnabled
         THEN {"OT_DEVICE_ROLE_DETACHED", "OT_DEVICE_ROLE_CHILD",
               "OT_DEVICE_ROLE_ROUTER", "OT_DEVICE_ROLE_LEADER"}
         ELSE {"OT_DEVICE_ROLE_DISABLED"}

SetResults == {"OT_ERROR_NONE", "OT_ERROR_INVALID_STATE"}

StateBodies == {"\"enable\"", "\"disable\"", "\"reset\"", "enable"}

StateGet ==
    \E c \in Conn, role \in Roles :
        Deliver(c, [body |-> "", method |-> "GET", url |-> OT_REST_RESOURCE_PATH_NODE_STATE],
               [NoLib EXCEPT !.role = role])

StatePut ==
    \E c \in Conn, b \in StateBodies, r1, r2 \in SetResults :
        Deliver(c, [body |-> b, method |-> "PUT", url |-> OT_REST_RESOURCE_PATH_NODE_STATE],
               [NoLib EXCEPT !.ip6 = r1, !.thread = r2])

StateOther ==
    \E c \in Conn, m \in {"OPTIONS", "POST", "DELETE"} :
        Deliver(c, [body |-> "", method |-> m, url |-> OT_REST_RESOURCE_PATH_NODE_STATE],
               NoLib)

HttpMethod == {"GET", "PUT", "POST", "DELETE", "OPTIONS"}

\* requests on /node, with each outcome of the calls of GET and DELETE
NodeRequest ==
    \E c \in Conn, m \in HttpMethod, r1, r2 \in SetResults :
        /\ m = "GET" => r2 = "OT_ERROR_NONE"
        /\ m \notin {"GET", "DELETE"} => r1 = "OT_ERROR_NONE" /\ r2 = "OT_ERROR_NONE"
        /\ Deliver(c, [body |-> "", method |-> m, url |-> OT_REST_RESOURCE_PATH_NODE],
                   IF m = "GET" THEN [NoLib EXCEPT !.baId = r1]
                   ELSE [NoLib EXCEPT !.detach = r1, !.erase = r2])

BaIdRequest ==
    \E c \in Conn, m \in HttpMethod :
        Deliver(c, [body |-> "", method |-> m, url |-> OT_REST_RESOURCE_PATH_NODE_BAID],
               NoLib)

\* requests on the diagnostics path with a method other than GET
DiagnosticOther ==
    \E c \in Conn, m \in HttpMethod \ {"GET"} :
        Deliver(c, [body |-> "", method |-> m, url |-> OT_REST_RESOURCE_PATH_DIAGNOSTICS],
               NoLib)

\* paths that are not registered: a registered path with a trailing slash or a
\* further segment, and OT_REST_RESOURCE_PATH_NETWORK, which has no handler
UnregisteredPaths == {"/node/state/", "/diagnostics/x", "/networks"}

Unregistered ==
    \E c \in Conn, u \in UnregisteredPaths, m \in {"GET", "PUT"} :
        Deliver(c, [body |-> IF m = "PUT" THEN "\"enable\"" ELSE "",
                    method |-> m, url |-> u], NoLib)

\* one reply to a query, so that the cache holds a record
RestReply ==
    /\ nReplies = 0
    /\ DiagnosticResponseHandler("OT_ERROR_NONE", <<Tlv(2, 15)>>)

NextRest ==
    \/ StateGet \/ StatePut \/ StateOther \/ NodeRequest \/ BaIdRequest
    \/ DiagnosticOther \/ Unregistered \/ RestReply \/ Poll \/ Advance

\* the ordinary resources: each request is answered by its handler
SpecRest == Init /\ [][NextRest]_vars

\* the instances the mesh requests start from: the commissioner in each state, each
\* dataset present, one service registered, every service entry taken
Registered(aNames) ==
    [mInstanceName |-> aNames.mInstanceName, mName |-> aNames.mName,
     mState |-> "OT_SRP_CLIENT_ITEM_STATE_REGISTERED"]

MeshInstances ==
    {NoInstance,
     [NoInstance EXCEPT !.commissioner = "OT_COMMISSIONER_STATE_PETITION"],
     [NoInstance EXCEPT !.commissioner = "OT_COMMISSIONER_STATE_ACTIVE"],
     [NoInstance EXCEPT !.commissioner = "OT_COMMISSIONER_STATE_ACTIVE",
                        !.joiners = {"*"}],
     [NoInstance EXCEPT !.active = TRUE],
     [NoInstance EXCEPT !.active = TRUE, !.pending = TRUE],
     [NoInstance EXCEPT !.services =
                            {Registered([mInstanceName |-> "printer",
                                         mName |-> "_ipp._tcp"])},
                        !.buffers = ServiceBuffers - 1],
     [NoInstance EXCEPT !.services =
                            {Registered([mInstanceName |-> "printer",
                                         mName |-> "_ipp._tcp"]),
                             Registered([mInstanceName |-> "fax",
                                         mName |-> "_fax._tcp"])},
                        !.buffers = ServiceBuffers - 2]}

\* Thread is up or down; with a dataset the device may be attached
InitMesh ==
    /\ now = 0
    /\ mDiagSet = <<>>
    /\ requests = [c \in Conn |-> NoRequest]
    /\ responses = [c \in Conn |-> NewResponse]
    /\ queries = <<>>
    /\ flushed = [c \in Conn |-> NotFlushed]
    /\ nReplies = 0
    /\ nWarnings = 0
    /\ mInstance \in MeshInstances
    /\ mThreadEnabled \in BOOLEAN
    /\ mIp6Enabled = mThreadEnabled
    /\ mThreadEnabled => mInstance.active

\* a text that none of the conversions of a body accepts
InvalidBody == "{"

FailResults == {"OT_ERROR_NONE", "OT_ERROR_FAILED"}

WithHeader(aRequest, aName, aValue) ==
    IF aValue = "" THEN aRequest ELSE aRequest @@ (aName :> aValue)

DatasetGet ==
    \E c \in Conn, accept \in {"", OT_REST_CONTENT_TYPE_PLAIN},
       u \in {OT_REST_RESOURCE_PATH_NODE_DATASET_ACTIVE,
              OT_REST_RESOURCE_PATH_NODE_DATASET_PENDING} :
        Deliver(c, WithHeader([body |-> "", method |-> "GET", url |-> u],
                              OT_REST_ACCEPT_HEADER, accept), NoLib)

DatasetPut ==
    \E c \in Conn, type \in {"", OT_REST_CONTENT_TYPE_PLAIN},
       u \in {OT_REST_RESOURCE_PATH_NODE_DATASET_ACTIVE,
              OT_REST_RESOURCE_PATH_NODE_DATASET_PENDING},
       b \in HexBodies \cup DatasetBodies \cup {InvalidBody},
       role \in Roles, r1, r2, r3 \in FailResults :
        /\ Cardinality({r \in {r1, r2, r3} : r # "OT_ERROR_NONE"}) <= 1
        /\ Deliver(c, WithHeader([body |-> b, method |-> "PUT", url |-> u],
                                 OT_REST_CONTENT_TYPE_HEADER, type),
                   [NoLib EXCEPT !.role = role, !.create = r1, !.update = r2,
                                 !.set = r3])

CommissionerStateRequest ==
    \E c \in Conn, m \in {"GET", "PUT"}, b \in StateBodies, r1, r2 \in SetResults :
        /\ m = "GET" => b = "enable" /\ r1 = "OT_ERROR_NONE" /\ r2 = "OT_ERROR_NONE"
        /\ Deliver(c, [body |-> IF m = "GET" THEN "" ELSE b,
                       method |-> m, url |-> OT_REST_RESOURCE_PATH_NODE_COMMISSIONER_STATE],
                   [NoLib EXCEPT !.start = r1, !.stop = r2])

AddJoinerResults == {"OT_ERROR_NONE", "OT_ERROR_INVALID_ARGS", "OT_ERROR_NO_BUFS",
                     "OT_ERROR_FAILED"}

JoinerRequest ==
    \E c \in Conn, m \in {"GET", "POST", "DELETE"},
       b \in DOMAIN JoinerBodies \cup {"\"*\"", "\"reset\"", InvalidBody},
       r \in AddJoinerResults :
        /\ m = "GET" => b = InvalidBody
        /\ m # "POST" => r = "OT_ERROR_NONE"
        /\ m = "POST" => b \in DOMAIN JoinerBodies \cup {InvalidBody}
        /\ m = "DELETE" => b \notin DOMAIN JoinerBodies
        /\ Deliver(c, [body |-> IF m = "GET" THEN "" ELSE b,
                       method |-> m, url |-> OT_REST_RESOURCE_PATH_NODE_COMMISSIONER_JOINER],
                   [NoLib EXCEPT !.joiner = r])

SrpClientServiceRequest ==
    \E c \in Conn, m \in {"GET", "POST", "DELETE"},
       b \in DOMAIN ServiceBodies \cup {InvalidBody}, r \in SetResults :
        /\ m = "GET" => b = InvalidBody /\ r = "OT_ERROR_NONE"
        /\ Deliver(c, [body |-> IF m = "GET" THEN "" ELSE b,
                       method |-> m, url |-> OT_REST_RESOURCE_PATH_NODE_SRP_CLIENT_SERVICE],
                   [NoLib EXCEPT !.service = r, !.remove = r])

\* a method that the handler of a mesh resource does not enumerate, and OPTIONS
MeshOther ==
    \E c \in Conn, m \in HttpMethod :
        \/ /\ m \in {"POST", "DELETE", "OPTIONS"}
           /\ \E u \in {OT_REST_RESOURCE_PATH_NODE_DATASET_ACTIVE,
                         OT_REST_RESOURCE_PATH_NODE_DATASET_PENDING,
                         OT_REST_RESOURCE_PATH_NODE_COMMISSIONER_STATE} :
                  Deliver(c, [body |-> "", method |-> m, url |-> u], NoLib)
        \/ /\ m \in {"PUT", "OPTIONS"}
           /\ \E u \in {OT_REST_RESOURCE_PATH_NODE_COMMISSIONER_JOINER,
                         OT_REST_RESOURCE_PATH_NODE_SRP_CLIENT_SERVICE} :
                  Deliver(c, [body |-> "", method |-> m, url |-> u], NoLib)

\* the commissioner's petition is accepted by the leader
PetitionAccepted ==
    /\ mInstance.commissioner = "OT_COMMISSIONER_STATE_PETITION"
    /\ mInstance' = [mInstance EXCEPT !.commissioner = "OT_COMMISSIONER_STATE_ACTIVE"]
    /\ UNCHANGED <<now, mDiagSet, requests, responses, queries, flushed, nReplies,
                   nWarnings, mIp6Enabled, mThreadEnabled>>

NextMesh ==
    \/ DatasetGet \/ DatasetPut \/ CommissionerStateRequest \/ JoinerRequest
    \/ SrpClientServiceRequest \/ MeshOther \/ PetitionAccepted

\* the resources of the datasets, the commissioner and the SRP client services
SpecMesh == InitMesh /\ [][NextMesh]_vars

\* instances with and without a host, a commissioner, a dataset and a service
HostInstances ==
    {NoInstance,
     [NoInstance EXCEPT !.hostName = "br", !.hostAddresses = "auto",
                        !.hostState = "OT_SRP_CLIENT_ITEM_STATE_REGISTERED",
                        !.active = TRUE,
                        !.commissioner = "OT_COMMISSIONER_STATE_ACTIVE"],
     [NoInstance EXCEPT !.hostName = "gw", !.hostAddresses = "fd00::1",
                        !.hostState = "OT_SRP_CLIENT_ITEM_STATE_TO_ADD",
                        !.pending = TRUE,
                        !.services = {Registered([mInstanceName |-> "printer",
                                                  mName |-> "_ipp._tcp"])},
                        !.buffers = ServiceBuffers - 1]}

InitHost ==
    /\ now = 0
    /\ mDiagSet = <<>>
    /\ requests = [c \in Conn |-> NoRequest]
    /\ responses = [c \in Conn |-> NewResponse]
    /\ queries = <<>>
    /\ flushed = [c \in Conn |-> NotFlushed]
    /\ nReplies = 0
    /\ nWarnings = 0
    /\ mInstance \in HostInstances
    /\ mThreadEnabled \in BOOLEAN
    /\ mIp6Enabled = mThreadEnabled
    /\ mThreadEnabled => mInstance.active

\* PUT on the host resource, with each outcome of the calls of the library
HostPut ==
    \E c \in Conn, b \in DOMAIN HostBodies \cup {InvalidBody}, r1, r2, r3 \in SetResults :
        Deliver(c, [body |-> b,
                    method |-> "PUT", url |-> OT_REST_RESOURCE_PATH_NODE_SRP_CLIENT_HOST],
                [NoLib EXCEPT !.auto = r1, !.addresses = r2, !.hostName = r3])

HostDelete ==
    \E c \in Conn, r \in SetResults :
        Deliver(c, [body |-> "",
                    method |-> "DELETE", url |-> OT_REST_RESOURCE_PATH_NODE_SRP_CLIENT_HOST],
                [NoLib EXCEPT !.removeHost = r])

HostOther ==
    \E c \in Conn, m \in {"GET", "POST", "OPTIONS"} :
        Deliver(c, [body |-> "",
                    method |-> m, url |-> OT_REST_RESOURCE_PATH_NODE_SRP_CLIENT_HOST], NoLib)

\* DELETE on the node resource, with each outcome of Detach and of the erasure
NodeDelete ==
    \E c \in Conn, r1, r2 \in SetResults :
        Deliver(c, [body |-> "", method |-> "DELETE", url |-> OT_REST_RESOURCE_PATH_NODE],
                [NoLib EXCEPT !.detach = r1, !.erase = r2])

NextHost == HostPut \/ HostDelete \/ HostOther \/ NodeDelete

\* the resources of the SRP client host and of the node, over an instance in use
SpecHost == InitHost /\ [][NextHost]_vars

\* the values of the enumerations, and for each a value that is none of them
DeviceRoles == {"OT_DEVICE_ROLE_DISABLED", "OT_DEVICE_ROLE_DETACHED",
                "OT_DEVICE_ROLE_CHILD", "OT_DEVICE_ROLE_ROUTER", "OT_DEVICE_ROLE_LEADER"}

CommissionerStates == {"OT_COMMISSIONER_STATE_DISABLED", "OT_COMMISSIONER_STATE_PETITION",
                       "OT_COMMISSIONER_STATE_ACTIVE"}

SrpServerStates == {"OT_SRP_SERVER_STATE_DISABLED", "OT_SRP_SERVER_STATE_RUNNING",
                    "OT_SRP_SERVER_STATE_STOPPED"}

SrpClientItemStates ==
    {"OT_SRP_CLIENT_ITEM_STATE_TO_ADD", "OT_SRP_CLIENT_ITEM_STATE_ADDING",
     "OT_SRP_CLIENT_ITEM_STATE_TO_REFRESH", "OT_SRP_CLIENT_ITEM_STATE_REFRESHING",
     "OT_SRP_CLIENT_ITEM_STATE_TO_REMOVE", "OT_SRP_CLIENT_ITEM_STATE_REMOVING",
     "OT_SRP_CLIENT_ITEM_STATE_REGISTERED", "OT_SRP_CLIENT_ITEM_STATE_REMOVED"}

Unhandled(aType) == aType \o "(-1)"

NameInstances ==
    {[NoInstance EXCEPT !.commissioner = v] :
         v \in CommissionerStates \cup {Unhandled("otCommissionerState")}}
    \cup {[NoInstance EXCEPT !.srpServer = v] :
              v \in SrpServerStates \cup {Unhandled("otSrpServerState")}}
    \cup {[NoInstance EXCEPT
              !.services = {[mInstanceName |-> "printer", mName |-> "_ipp._tcp",
                             mState |-> v]},
              !.buffers = ServiceBuffers - 1] :
              v \in SrpClientItemStates \cup {Unhandled("otSrpClientItemState")}}

InitNames ==
    /\ now = 0
    /\ mDiagSet = <<>>
    /\ requests = [c \in Conn |-> NoRequest]
    /\ responses = [c \in Conn |-> NewResponse]
    /\ queries = <<>>
    /\ flushed = [c \in Conn |-> NotFlushed]
    /\ nReplies = 0
    /\ nWarnings = 0
    /\ mIp6Enabled = FALSE
    /\ mThreadEnabled = FALSE
    /\ mInstance \in NameInstances

NameRole ==
    \E c \in Conn, role \in DeviceRoles \cup {Unhandled("otDeviceRole")} :
        Deliver(c, [body |-> "", method |-> "GET", url |-> OT_REST_RESOURCE_PATH_NODE_STATE],
               [NoLib EXCEPT !.role = role])

NameState ==
    \E c \in Conn, u \in {OT_REST_RESOURCE_PATH_NODE_COMMISSIONER_STATE,
                          OT_REST_RESOURCE_PATH_NODE_SRP_SERVER_STATE,
                          OT_REST_RESOURCE_PATH_NODE_SRP_CLIENT_SERVICE} :
        Deliver(c, [body |-> "", method |-> "GET", url |-> u], NoLib)

\* a handler answers with ErrorHandler
ErrorReply ==
    \E c \in Conn, k \in HttpStatusCode \cup {Unhandled("HttpStatusCode")} :
        /\ requests[c] = NoRequest
        /\ responses[c] = NewResponse
        /\ responses' = [responses EXCEPT ![c] = ErrorHandler(responses[c], k)]
        /\ UNCHANGED <<now, mDiagSet, requests, queries, flushed, nReplies, nWarnings,
                       meshVars>>

NextNames == NameRole \/ NameState \/ ErrorReply

\* the conversions of an enumeration to a name, applied to each value
SpecNames == InitNames /\ [][NextNames]_vars

-----------------------------------------------------------------------------
(* Properties *)

\* a diagnostics response whose window is open
Pending(c) == responses[c].callback /\ ~responses[c].complete

\* a diagnostics response completed by a flush
Flushed(c) == responses[c].callback /\ responses[c].complete

Deadline(c) == responses[c].startTime + kDiagCollectTimeout

PollCompletes(c) == PollConn(c) /\ responses'[c].complete

PollLeavesPending(c) == PollConn(c) /\ ~responses'[c].complete

\* the body holds the entries of exactly the records of the set, in some order
BodyHolds(aBody, aSet) ==
    /\ aBody.kind = "diag"
    /\ \E o \in Orders(DOMAIN aSet) :
          aBody.set = [i \in 1..Len(o) |-> aSet[o[i]].mDiagContent]

\* C1: a pending diagnostics response is completed by no poll tick before its start
\* time plus kDiagCollectTimeout and by every poll tick at or after it, whatever
\* replies arrived; a flushed response was flushed at or after that deadline.
C1_PollDriven ==
    \A c \in Conn :
        /\ Pending(c) /\ now < Deadline(c) => ~ENABLED PollCompletes(c)
        /\ Pending(c) /\ now >= Deadline(c) =>
              ENABLED PollCompletes(c) /\ ~ENABLED PollLeavesPending(c)
        /\ Flushed(c) => flushed[c].time >= Deadline(c)

\* a response flushed exactly at its deadline, with replies received in its window
C1_Witness ==
    \E c \in Conn :
        /\ Flushed(c)
        /\ flushed[c].time = Deadline(c)
        /\ flushed[c].replies >= 2
        /\ \E k \in DOMAIN flushed[c].set :
              flushed[c].set[k].mStartTime > responses[c].startTime

\* C2: every diagnostics response whose two queries were accepted is eventually
\* complete, when the clock keeps advancing and every outstanding response keeps
\* being polled.
C2_EventuallyComplete == \A c \in Conn : Pending(c) ~> responses[c].complete

\* a response completed although only failure callbacks arrived
C2_Witness ==
    \E c \in Conn :
        /\ Flushed(c)
        /\ flushed[c].replies = 0
        /\ flushed[c].warnings > 0
        /\ flushed[c].set = <<>>

\* C3: a reply callback changes no field of any response, and a pending response
\* becomes complete only in a step of the poller (not a reply, a request or a clock
\* step).
C3_OnlyPollerCompletes ==
    [][/\ (nReplies' # nReplies \/ nWarnings' # nWarnings) =>
              \A c \in Conn :
                  /\ responses'[c].code = responses[c].code
                  /\ responses'[c].body = responses[c].body
                  /\ responses'[c].complete = responses[c].complete
                  /\ responses'[c].callback = responses[c].callback
                  /\ responses'[c].startTime = responses[c].startTime
       /\ \A c \in Conn :
              Pending(c) /\ responses'[c].complete =>
                  /\ nReplies' = nReplies /\ nWarnings' = nWarnings
                  /\ requests' = requests /\ now' = now
                  /\ flushed'[c].time = now]_vars

\* a reply was folded into the cache while a response was pending
C3_Witness ==
    \E c \in Conn, k \in DOMAIN mDiagSet :
        Pending(c) /\ mDiagSet[k].mStartTime > responses[c].startTime

\* C4: the code and the body of a response do not change after SetComplete.
C4_ImmutableOnceComplete == \A c \in Conn : ~responses[c].altered

\* request b was handled after the flush of a: its queries were accepted after it
StartedAfterFlush(b, a) ==
    /\ Flushed(a) /\ responses[b].callback /\ a # b
    /\ \A i \in DOMAIN queries : queries[i].conn = b => i > flushed[a].queries

\* the record under k in the snapshot of b was received before the flush of a: its
\* time is earlier, or no reply was delivered between the two flushes
ReceivedBeforeFlush(b, k, a) ==
    \/ flushed[b].set[k].mStartTime < flushed[a].time
    \/ flushed[b].replies = flushed[a].replies

C6_Eviction ==
    [][/\ \A c \in Conn :
          Pending(c) /\ responses'[c].complete =>
              /\ DOMAIN flushed'[c].set =
                    {k \in DOMAIN mDiagSet : now - mDiagSet[k].mStartTime < kDiagResetTimeout}
              /\ \A k \in DOMAIN flushed'[c].set : flushed'[c].set[k] = mDiagSet[k]
              /\ BodyHolds(responses'[c].body, flushed'[c].set)
       /\ \A k \in DOMAIN mDiagSet :
              k \notin DOMAIN mDiagSet' \/ mDiagSet'[k] # mDiagSet[k] =>
                  \/ nReplies' # nReplies
                  \/ now - mDiagSet[k].mStartTime >= kDiagResetTimeout]_vars

\* a flush that kept one record and evicted another: an earlier round returned a
\* record that this one, kDiagResetTimeout later, did not
C6_Witness ==
    \E a, b \in Conn :
        /\ Flushed(a) /\ Flushed(b)
        /\ flushed[b].set # <<>>
        /\ \E k \in DOMAIN flushed[a].set :
              /\ k \notin DOMAIN flushed[b].set
              /\ flushed[b].time - flushed[a].set[k].mStartTime >= kDiagResetTimeout
              /\ flushed[b].replies = flushed[a].replies

C8_FailureIgnored ==
    [][/\ nWarnings' # nWarnings => mDiagSet' = mDiagSet /\ responses' = responses
       /\ \A c \in Conn :
              Pending(c) /\ responses'[c].complete =>
                  /\ responses'[c].code = "200 OK"
                  /\ now >= Deadline(c)]_vars

\* a request completed with 200 after a failure was reported in its window: it is
\* the only request, and the failure came before its flush
C8_Witness ==
    \E c \in Conn :
        /\ Flushed(c)
        /\ responses[c].code = "200 OK"
        /\ flushed[c].warnings > 0
        /\ \A d \in Conn \ {c} : requests[d] = NoRequest

\* C9: a successful reply changes no completed response and leaves its record in the
\* cache with the time of its arrival; and a flush returns every record younger than
\* kDiagResetTimeout, those received after an earlier flush included.
C9_LateReply ==
    [][/\ \A m \in Messages :
              DiagnosticResponseHandler("OT_ERROR_NONE", m) =>
                  /\ \A c \in Conn : responses[c].complete => responses'[c] = responses[c]
                  /\ flushed' = flushed
                  /\ KeyRloc(m, Len(m)) \in DOMAIN mDiagSet'
                  /\ mDiagSet'[KeyRloc(m, Len(m))] = [mStartTime |-> now, mDiagContent |-> m]
       /\ \A b \in Conn :
              Pending(b) /\ responses'[b].complete =>
                  \A k \in DOMAIN mDiagSet :
                      now - mDiagSet[k].mStartTime < kDiagResetTimeout =>
                          /\ k \in DOMAIN flushed'[b].set
                          /\ flushed'[b].set[k] = mDiagSet[k]
                          /\ \E i \in DOMAIN responses'[b].body.set :
                                responses'[b].body.set[i] = mDiagSet[k].mDiagContent]_vars

\* a round returned a record received after the flush of an earlier round, whose
\* body does not hold it
C9_Witness ==
    \E a, b \in Conn :
        /\ Flushed(a) /\ Flushed(b)
        /\ \E k \in DOMAIN flushed[b].set :
              /\ flushed[b].set[k].mStartTime > flushed[a].time
              /\ k \notin DOMAIN flushed[a].set
              /\ BodyHolds(responses[a].body, flushed[a].set)

\* C10: a diagnostics request that ended in the InternalError response has
\* dispatched no query.
C10_NeverPartiallyIssued ==
    \A c \in Conn :
        /\ requests[c].url = OT_REST_RESOURCE_PATH_DIAGNOSTICS
        /\ responses[c].code = "500 Internal Server Error"
        => \A i \in DOMAIN queries : queries[i].conn # c

\* the queries accepted for the request of a connection, in order
QueriesOf(aQueries, c) == SelectSeq(aQueries, LAMBDA q : q.conn = c)

\* C11: when the diagnostics handler returns, either both queries were accepted, the
\* callback flag is set, the start time is the present instant and the response is
\* not complete; or fewer than two were accepted and the response is complete with
\* 500, without callback flag and start time.  A response that carries 500 never has
\* the callback flag or a start time.
C11_TwoOutcomes ==
    [][\A c \in Conn :
          LET r == responses'[c]
              q == QueriesOf(queries', c)
          IN  /\ requests'[c] # requests[c]
                    /\ requests'[c].url = OT_REST_RESOURCE_PATH_DIAGNOSTICS =>
                    \/ /\ Len(q) = 2
                       /\ r.callback /\ r.startTime = now /\ ~r.complete
                    \/ /\ Len(q) < 2
                       /\ r.complete /\ r.code = "500 Internal Server Error"
                       /\ r.body = Error2JsonString("kStatusInternalServerError",
                                                    "500 Internal Server Error")
                       /\ ~r.callback /\ r.startTime = NotSet
              /\ r.code = "500 Internal Server Error" =>
                    r.complete /\ ~r.callback /\ r.startTime = NotSet]_vars

\* one request is pending and another was answered with 500 after its first query
\* was accepted
C11_Witness ==
    \E a, b \in Conn :
        /\ Pending(a) /\ Len(QueriesOf(queries, a)) = 2
        /\ responses[b].code = "500 Internal Server Error"
        /\ requests[b].url = OT_REST_RESOURCE_PATH_DIAGNOSTICS
        /\ Len(QueriesOf(queries, b)) = 1

\* C12: a diagnostics response with the callback flag has exactly two queries, the
\* first to the routing locator and the second to the all-routers group, both with
\* kAllTlvTypes; and the queries change only in the step that handles a request,
\* not in a poll tick or a reply.
C12_ExactlyTwoQueries ==
    [][/\ \A c \in Conn :
              responses'[c].callback =>
                  LET q == QueriesOf(queries', c)
                  IN  /\ Len(q) = 2
                      /\ q[1].dest = "rloc"
                      /\ q[2].dest = "ff03::2"
                      /\ q[1].tlvs = kAllTlvTypes /\ q[2].tlvs = kAllTlvTypes
       /\ queries' # queries =>
              /\ nReplies' = nReplies /\ nWarnings' = nWarnings
              /\ \E c \in Conn : requests[c] = NoRequest /\ requests'[c] # NoRequest
              /\ \A c \in Conn : requests'[c] = requests[c] =>
                     QueriesOf(queries', c) = QueriesOf(queries, c)]_vars

\* a request that was pending through replies and poll ticks up to its flush, with
\* its two queries
C12_Witness ==
    \E c \in Conn :
        /\ Flushed(c)
        /\ flushed[c].replies + flushed[c].warnings >= 2
        /\ Len(QueriesOf(queries, c)) = 2

\* C13: in the scenario (request at 0, replies at 100 ms under 0x1200, at 500 ms under
\* 0x3400 and at 1900 ms under 0x1200), a poll tick before 2000 ms, the one at
\* 1000 ms included, leaves the response pending; the poll tick at 2000 ms completes
\* it with 200 OK and exactly two records: the entries of the reply of 500 ms under
\* 0x3400 and those of the reply of 1900 ms under 0x1200.
C13_Scenario ==
    LET c  == "c1"
        k1 == "\"0x1200\""
        k2 == "\"0x3400\""
    IN  /\ Pending(c) /\ now < 20 * ScenarioStep =>
              ENABLED PollLeavesPending(c) /\ ~ENABLED PollCompletes(c)
        /\ Pending(c) /\ now = 20 * ScenarioStep =>
              ENABLED PollCompletes(c) /\ ~ENABLED PollLeavesPending(c)
        /\ responses[c].complete =>
              /\ responses[c].code = "200 OK"
              /\ flushed[c].time = 20 * ScenarioStep
              /\ DOMAIN flushed[c].set = {k1, k2}
              /\ flushed[c].set[k2].mDiagContent \in Reply2Messages
              /\ flushed[c].set[k2].mStartTime = 5 * ScenarioStep
              /\ flushed[c].set[k1].mDiagContent \in Reply3Messages
              /\ flushed[c].set[k1].mStartTime = 19 * ScenarioStep
              /\ Len(responses[c].body.set) = 2
              /\ BodyHolds(responses[c].body, flushed[c].set)

\* the response of the scenario was completed at 2000 ms, after the three replies
C13_Witness ==
    /\ responses["c1"].complete
    /\ flushed["c1"].time = kDiagCollectTimeout
    /\ flushed["c1"].replies = 3
    /\ Len(responses["c1"].body.set) = 2

\* two flushed requests whose collection windows overlapped, a flushed no later:
\* at no later an instant and after no more replies
Concurrent(a, b) ==
    /\ a # b /\ Flushed(a) /\ Flushed(b)
    /\ flushed[a].time <= flushed[b].time
    /\ flushed[a].replies <= flushed[b].replies
    /\ responses[b].startTime < flushed[a].time

\* C14: of two requests whose windows overlapped, each response holds the records
\* of the one cache: a record returned to the first and younger than
\* kDiagResetTimeout at the flush of the second is returned to the second too (or a
\* newer one under its key), whether it was received before or after the second
\* started; and a record of the second that was received before the flush of the
\* first was returned to the first.
C14_SharedCache ==
    \A a, b \in Conn :
        Concurrent(a, b) =>
            /\ BodyHolds(responses[a].body, flushed[a].set)
            /\ BodyHolds(responses[b].body, flushed[b].set)
            /\ \A k \in DOMAIN flushed[a].set :
                  flushed[b].time - flushed[a].set[k].mStartTime < kDiagResetTimeout =>
                      /\ k \in DOMAIN flushed[b].set
                      /\ flushed[b].set[k].mStartTime >= flushed[a].set[k].mStartTime
            /\ \A k \in DOMAIN flushed[b].set :
                  flushed[b].set[k].mStartTime < flushed[a].time =>
                      /\ k \in DOMAIN flushed[a].set
                      /\ flushed[a].set[k] = flushed[b].set[k]

\* the second of two concurrent requests was given a record received before it
\* started, in answer to the queries of the first, and one received after
C14_Witness ==
    \E a, b \in Conn :
        /\ Concurrent(a, b)
        /\ responses[a].startTime < responses[b].startTime
        /\ \E k \in DOMAIN flushed[b].set :
              /\ flushed[b].set[k].mStartTime < responses[b].startTime
              /\ flushed[b].set[k].mStartTime > responses[a].startTime
              /\ k \in DOMAIN flushed[a].set
        /\ \E k \in DOMAIN flushed[b].set :
              flushed[b].set[k].mStartTime > responses[b].startTime

HasShortAddress(m) ==
    \E i \in DOMAIN m : m[i].mType = OT_NETWORK_DIAGNOSTIC_TLV_SHORT_ADDRESS

\* C15: a successful reply without short-address entry leaves its entries under the
\* key 0xffee, in place of what was there, and every other record as it was; and the
\* cache never holds more than one record without short-address entry.
C15_Placeholder ==
    [][/\ \A m \in Messages \cup NoAddressMessages :
              DiagnosticResponseHandler("OT_ERROR_NONE", m) /\ ~HasShortAddress(m) =>
                  /\ DOMAIN mDiagSet' = DOMAIN mDiagSet \cup {"0xffee"}
                  /\ mDiagSet'["0xffee"] = [mStartTime |-> now, mDiagContent |-> m]
                  /\ \A j \in DOMAIN mDiagSet \ {"0xffee"} : mDiagSet'[j] = mDiagSet[j]
       /\ Cardinality({k \in DOMAIN mDiagSet' :
                          ~HasShortAddress(mDiagSet'[k].mDiagContent)}) <= 1]_vars

\* a second reply without short address came after the first, and the cache holds
\* one record, under the placeholder key
C15_Witness ==
    /\ nReplies >= 2
    /\ DOMAIN mDiagSet = {"0xffee"}
    /\ mDiagSet["0xffee"].mStartTime >= TimeStep
    /\ ~HasShortAddress(mDiagSet["0xffee"].mDiagContent)
    /\ \A c \in Conn : ~responses[c].complete

\* a poll tick that changes a response or the cache
PollChanges(c) == PollConn(c) /\ (responses' # responses \/ mDiagSet' # mDiagSet)

\* C16: a poll tick on a pending diagnostics response before its start time plus
\* kDiagCollectTimeout changes no response and leaves the cache as it is, records at
\* or above the eviction threshold included.
C16_EarlyTickNoOp ==
    \A c \in Conn :
        Pending(c) /\ now < Deadline(c) =>
            /\ ENABLED PollConn(c)
            /\ ~ENABLED PollChanges(c)

\* a response is polled before its deadline while the cache holds a record that a
\* flush would evict
C16_Witness ==
    \E c \in Conn, k \in DOMAIN mDiagSet :
        /\ Pending(c) /\ now < Deadline(c)
        /\ now - mDiagSet[k].mStartTime >= kDiagResetTimeout
        /\ ENABLED PollConn(c)

\* a call of HandleCallback for the response of a connection, and one that changes a
\* response, the cache or the record of the flushes
CallbackConn(c) == \E o \in KeyOrders : HandleCallback(c, o)

CallbackChanges(c) ==
    /\ CallbackConn(c)
    /\ responses' # responses \/ mDiagSet' # mDiagSet \/ flushed' # flushed

\* C17: for a request on any path other than the diagnostics path, HandleCallback
\* returns without changing any response or the cache, whatever the time elapsed and
\* whatever the cache holds.
C17_CallbackNoOp ==
    \A c \in Conn :
        requests[c].url # OT_REST_RESOURCE_PATH_DIAGNOSTICS =>
            /\ ENABLED CallbackConn(c)
            /\ ~ENABLED CallbackChanges(c)

\* the response of a request on another path is outstanding after the collection
\* timeout, while the cache holds a record that a flush would evict
C17_Witness ==
    \E c \in Conn, k \in DOMAIN mDiagSet :
        /\ requests[c].url \in mResourceMap \ {OT_REST_RESOURCE_PATH_DIAGNOSTICS}
        /\ ~responses[c].complete
        /\ now >= kDiagCollectTimeout
        /\ now - mDiagSet[k].mStartTime >= kDiagResetTimeout
        /\ ENABLED PollConn(c)

\* C18: Handle answers a request whose path is not in mResourceMap with the completed
\* 404 error response and nothing else: no query is issued, the enabled flags of the
\* library, the cache and the other responses are as before.
C18_UnregisteredPath ==
    [][\A c \in Conn :
          requests'[c] # requests[c] /\ requests'[c].url \notin mResourceMap =>
              /\ responses'[c] =
                     [NewResponse EXCEPT
                         !.code = "404 Not Found",
                         !.body = Error2JsonString("kStatusResourceNotFound",
                                                   "404 Not Found"),
                         !.complete = TRUE]
              /\ queries' = queries
              /\ mIp6Enabled' = mIp6Enabled /\ mThreadEnabled' = mThreadEnabled
              /\ mInstance' = mInstance
              /\ mDiagSet' = mDiagSet
              /\ \A d \in Conn \ {c} : responses'[d] = responses[d]]_vars

\* PUT and GET on registered paths with a trailing slash and a further segment were
\* answered with 404
C18_Witness ==
    \E a, b \in Conn :
        /\ requests[a].url = "/node/state/" /\ requests[a].method = "PUT"
        /\ requests[b].url = "/diagnostics/x" /\ requests[b].method = "GET"
        /\ responses[a].code = "404 Not Found" /\ responses[a].complete
        /\ responses[b].code = "404 Not Found" /\ responses[b].complete
        /\ queries = <<>> /\ ~mIp6Enabled /\ ~mThreadEnabled

\* the methods each resource is to accept: those its handler enumerates, and GET
\* alone for the diagnostics resource
EnumeratedMethods(aUrl) ==
    CASE aUrl = OT_REST_RESOURCE_PATH_DIAGNOSTICS -> {"GET"}
      [] aUrl = OT_REST_RESOURCE_PATH_NODE        -> {"GET", "DELETE"}
      [] aUrl = OT_REST_RESOURCE_PATH_NODE_BAID   -> {"GET"}
      [] aUrl = OT_REST_RESOURCE_PATH_NODE_STATE  -> {"GET", "PUT", "OPTIONS"}
      [] aUrl \in {OT_REST_RESOURCE_PATH_NODE_DATASET_ACTIVE,
                   OT_REST_RESOURCE_PATH_NODE_DATASET_PENDING,
                   OT_REST_RESOURCE_PATH_NODE_COMMISSIONER_STATE,
                   OT_REST_RESOURCE_PATH_NODE_SRP_SERVER_STATE} -> {"GET", "PUT", "OPTIONS"}
      [] aUrl \in {OT_REST_RESOURCE_PATH_NODE_COMMISSIONER_JOINER,
                   OT_REST_RESOURCE_PATH_NODE_SRP_CLIENT_SERVICE} ->
              {"GET", "POST", "DELETE", "OPTIONS"}
      [] aUrl = OT_REST_RESOURCE_PATH_NODE_SRP_CLIENT_HOST ->
              {"GET", "PUT", "DELETE", "OPTIONS"}
      [] OTHER -> {}

\* C19: a request on a registered path with a method that its resource does not
\* enumerate is answered with the completed 405 response; on the diagnostics path
\* such a request issues no query.
C19_MethodNotAllowed ==
    \A c \in Conn :
        /\ requests[c].url \in mResourceMap
        /\ requests[c].method \notin EnumeratedMethods(requests[c].url)
        => /\ responses[c].complete
           /\ responses[c].code = "405 Method Not Allowed"
           /\ QueriesOf(queries, c) = <<>>

\* the resources that accept PUT, POST or DELETE
MutatingResources == {u \in mResourceMap :
                        EnumeratedMethods(u) \cap {"PUT", "POST", "DELETE"} # {}}

\* C20: OPTIONS on a resource that accepts PUT, POST or DELETE is answered with the
\* completed 200 response without body.
C20_Options ==
    \A c \in Conn :
        requests[c].method = "OPTIONS" /\ requests[c].url \in MutatingResources =>
            /\ responses[c].complete
            /\ responses[c].code = "200 OK"
            /\ responses[c].body = NoBody

\* C27: a successful reply leaves under its key the entries of the reply, each at its
\* place, the short-address entry included, and no other record changes; a step
\* that is not a reply changes the entries of no record.  So each record holds the
\* last reply delivered under its key.
C27_EntriesInOrder ==
    [][/\ \A m \in Messages :
              DiagnosticResponseHandler("OT_ERROR_NONE", m) =>
                  LET k == KeyRloc(m, Len(m))
                      r == mDiagSet'[k].mDiagContent
                  IN  /\ Len(r) = Len(m)
                      /\ \A i \in 1..Len(m) : r[i] = m[i]
                      /\ \A j \in DOMAIN mDiagSet' \ {k} :
                             j \in DOMAIN mDiagSet /\ mDiagSet'[j] = mDiagSet[j]
       /\ nReplies' = nReplies =>
              \A k \in DOMAIN mDiagSet' :
                  k \in DOMAIN mDiagSet /\ mDiagSet'[k] = mDiagSet[k]]_vars

\* the record of 0x1200 holds the entries of a second reply, whose short-address
\* entry comes last
C27_Witness ==
    /\ nReplies = 2
    /\ "\"0x1200\"" \in DOMAIN mDiagSet
    /\ mDiagSet["\"0x1200\""].mDiagContent =
           <<Tlv(2, 11), Tlv(OT_NETWORK_DIAGNOSTIC_TLV_SHORT_ADDRESS, 4608)>>
    /\ mDiagSet["\"0x1200\""].mStartTime >= TimeStep
    /\ DOMAIN mDiagSet = {"\"0x1200\""}

\* C29 as claimed: at the flush of a request, every record received at or after its
\* start is in the snapshot and its entries are in the body, however late the flush.
C29_WindowRepliesReturned ==
    [][\A c \in Conn :
          Pending(c) /\ responses'[c].complete =>
              \A k \in DOMAIN mDiagSet :
                  mDiagSet[k].mStartTime >= responses[c].startTime =>
                      /\ k \in DOMAIN flushed'[c].set
                      /\ \E i \in DOMAIN responses'[c].body.set :
                            responses'[c].body.set[i] = mDiagSet[k].mDiagContent]_vars

\* C29 as amended: a record received at or after the start of a request is in its
\* body when the flush comes less than kDiagResetTimeout after the record was
\* received, and is not when it comes later; so every such record is returned when
\* the flush is less than kDiagResetTimeout - kDiagCollectTimeout after the deadline.
\* Before the flush, a record leaves the cache only at that age or by a reply under
\* its key.
C29_WindowRepliesYoung ==
    [][/\ \A c \in Conn :
              Pending(c) /\ responses'[c].complete =>
                  /\ \A k \in DOMAIN mDiagSet :
                        mDiagSet[k].mStartTime >= responses[c].startTime =>
                            IF now - mDiagSet[k].mStartTime < kDiagResetTimeout
                            THEN /\ k \in DOMAIN flushed'[c].set
                                 /\ flushed'[c].set[k] = mDiagSet[k]
                            ELSE k \notin DOMAIN flushed'[c].set
                  /\ BodyHolds(responses'[c].body, flushed'[c].set)
                  /\ now - Deadline(c) < kDiagResetTimeout - kDiagCollectTimeout =>
                        \A k \in DOMAIN mDiagSet :
                            mDiagSet[k].mStartTime >= responses[c].startTime =>
                                k \in DOMAIN flushed'[c].set
       /\ \A k \in DOMAIN mDiagSet :
              k \notin DOMAIN mDiagSet' =>
                  now - mDiagSet[k].mStartTime >= kDiagResetTimeout]_vars

\* a request flushed after its deadline returned a record received in its window,
\* which an earlier poll tick had left in the cache
C29_Witness ==
    \E c \in Conn :
        /\ Flushed(c)
        /\ flushed[c].time > Deadline(c)
        /\ \E k \in DOMAIN flushed[c].set :
              /\ flushed[c].set[k].mStartTime > responses[c].startTime
              /\ flushed[c].set[k].mStartTime < Deadline(c)

\* a step in which the poller flushes a response
FlushStep == \E c \in Conn : Pending(c) /\ responses'[c].complete

\* C30: a successful reply leaves under its key a record whose time is the instant of
\* the reply, whatever record was there; no other step changes the time of a record
\* that stays; a record leaves the cache only in a flush, and a flush removes it
\* exactly when kDiagResetTimeout or more has passed since that time.
C30_AgeFromLastReply ==
    [][/\ \A m \in Messages :
              DiagnosticResponseHandler("OT_ERROR_NONE", m) =>
                  /\ KeyRloc(m, Len(m)) \in DOMAIN mDiagSet'
                  /\ mDiagSet'[KeyRloc(m, Len(m))].mStartTime = now
       /\ \A k \in DOMAIN mDiagSet :
              /\ k \in DOMAIN mDiagSet' /\ nReplies' = nReplies =>
                     mDiagSet'[k].mStartTime = mDiagSet[k].mStartTime
              /\ k \notin DOMAIN mDiagSet' =>
                     FlushStep /\ now - mDiagSet[k].mStartTime >= kDiagResetTimeout
              /\ FlushStep /\ now - mDiagSet[k].mStartTime >= kDiagResetTimeout =>
                     k \notin DOMAIN mDiagSet'
              /\ FlushStep /\ now - mDiagSet[k].mStartTime < kDiagResetTimeout =>
                     k \in DOMAIN mDiagSet' /\ mDiagSet'[k] = mDiagSet[k]]_vars

\* a key returned by a first flush was written again and is returned by a second
\* flush, kDiagResetTimeout or more after its first write, with the later time;
\* while another request's flush had met a record written once and removed it
C30_Witness ==
    \E a, b \in Conn :
        /\ Flushed(a) /\ Flushed(b)
        /\ flushed[b].replies = flushed[a].replies + 1
        /\ \E k \in DOMAIN flushed[a].set :
              /\ k \in DOMAIN flushed[b].set
              /\ flushed[b].set[k].mStartTime > flushed[a].set[k].mStartTime
              /\ flushed[b].time - flushed[a].set[k].mStartTime >= kDiagResetTimeout
              /\ flushed[b].set[k].mStartTime - flushed[a].set[k].mStartTime
                    < kDiagResetTimeout

\* C21: once Handle has returned for a request on a resource other than diagnostics,
\* the completion flag of the response is set, after a success as after an error.
C21_CompletesImmediately ==
    \A c \in Conn :
        requests[c] # NoRequest /\ requests[c].url # OT_REST_RESOURCE_PATH_DIAGNOSTICS =>
            responses[c].complete

\* the calls of PUT /node/state and DELETE /node whose failure is an invalid state
InvalidStateLibs(aRequest) ==
    CASE aRequest.url = OT_REST_RESOURCE_PATH_NODE_STATE /\ aRequest.method = "PUT"
              /\ aRequest.body = "\"enable\"" ->
              {l \in {[NoLib EXCEPT !.ip6 = r1, !.thread = r2] : r1, r2 \in SetResults} :
                  \/ ~mIp6Enabled /\ l.ip6 # "OT_ERROR_NONE"
                  \/ l.thread # "OT_ERROR_NONE"}
      [] aRequest.url = OT_REST_RESOURCE_PATH_NODE_STATE /\ aRequest.method = "PUT"
              /\ aRequest.body = "\"disable\"" ->
              {l \in {[NoLib EXCEPT !.ip6 = r1, !.thread = r2] : r1, r2 \in SetResults} :
                  l.thread # "OT_ERROR_NONE" \/ l.ip6 # "OT_ERROR_NONE"}
      [] aRequest.url = OT_REST_RESOURCE_PATH_NODE /\ aRequest.method = "DELETE" ->
              {[NoLib EXCEPT !.detach = "OT_ERROR_INVALID_STATE", !.erase = r2] :
                  r2 \in SetResults}
      [] OTHER -> {}

\* C22: a request whose handler meets an invalid state (a call of PUT /node/state
\* fails, the detach of DELETE /node fails) ends with the status 409 Conflict.
C22_InvalidStateConflict ==
    [][\A c \in Conn :
          \A u \in {OT_REST_RESOURCE_PATH_NODE_STATE, OT_REST_RESOURCE_PATH_NODE},
             m \in {"PUT", "DELETE"}, b \in StateBodies \cup {""} :
              LET req == [body |-> b, method |-> m, url |-> u]
              IN  \A l \in InvalidStateLibs(req) :
                      Deliver(c, req, l) =>
                          responses'[c].code = GetHttpStatus("kStatusConflict")]_vars

\* the request handled by the step, if the step hands one to Handle
Handled(aConn) == requests[aConn] = NoRequest /\ requests'[aConn] # NoRequest

\* C26: GET of a dataset that the instance does not hold is answered 204 No Content
\* with no body, and DELETE of an SRP client service whose names match no service of
\* the list is answered with the 404 error response; neither changes the instance.
C26_AbsentSubResource ==
    [][\A c \in Conn :
          Handled(c) =>
              LET r == requests'[c]
              IN  /\ /\ r.method = "GET"
                     /\ \/ r.url = OT_REST_RESOURCE_PATH_NODE_DATASET_ACTIVE
                            /\ ~mInstance.active
                        \/ r.url = OT_REST_RESOURCE_PATH_NODE_DATASET_PENDING
                            /\ ~mInstance.pending
                     => /\ responses'[c].code = "204 No Content"
                        /\ responses'[c].body = NoBody
                        /\ mInstance' = mInstance
                  /\ /\ r.method = "DELETE"
                     /\ r.url = OT_REST_RESOURCE_PATH_NODE_SRP_CLIENT_SERVICE
                     /\ r.body \in DOMAIN ServiceBodies
                     /\ \A sv \in mInstance.services :
                            \/ sv.mInstanceName # ServiceBodies[r.body].mInstanceName
                            \/ sv.mName # ServiceBodies[r.body].mName
                     => /\ responses'[c].code = "404 Not Found"
                        /\ responses'[c].body =
                               Error2JsonString("kStatusResourceNotFound", "404 Not Found")
                        /\ responses'[c].complete
                        /\ mInstance' = mInstance]_vars

\* an absent pending dataset was asked for while the active one is held, and a
\* service was asked to be removed whose instance name is in no service of the list
C26_Witness ==
    \E a, b \in Conn :
        /\ requests[a].url = OT_REST_RESOURCE_PATH_NODE_DATASET_PENDING
        /\ requests[a].method = "GET"
        /\ responses[a].code = "204 No Content"
        /\ requests[b].url = OT_REST_RESOURCE_PATH_NODE_SRP_CLIENT_SERVICE
        /\ requests[b].method = "DELETE"
        /\ responses[b].code = "404 Not Found"
        /\ Cardinality(mInstance.services) = 2

\* a request with a mutating method whose body fails the validation of its handler
InvalidInput(aRequest) ==
    LET plain == GetHeaderValue(aRequest, OT_REST_CONTENT_TYPE_HEADER)
                     = OT_REST_CONTENT_TYPE_PLAIN
    IN  CASE aRequest.url = OT_REST_RESOURCE_PATH_NODE_DATASET_ACTIVE ->
                  /\ aRequest.method = "PUT"
                  /\ IF plain THEN aRequest.body \notin HexBodies
                     ELSE aRequest.body \notin DatasetBodies
          [] aRequest.url = OT_REST_RESOURCE_PATH_NODE_DATASET_PENDING ->
                  /\ aRequest.method = "PUT"
                  /\ IF plain THEN aRequest.body \notin HexBodies
                     ELSE aRequest.body # "{\"NetworkName\":\"net\",\"Delay\":30}"
          [] aRequest.url = OT_REST_RESOURCE_PATH_NODE_COMMISSIONER_STATE ->
                  /\ aRequest.method = "PUT"
                  /\ aRequest.body \notin {"\"enable\"", "\"disable\""}
          [] aRequest.url = OT_REST_RESOURCE_PATH_NODE_COMMISSIONER_JOINER ->
                  \/ aRequest.method = "POST" /\ aRequest.body \notin DOMAIN JoinerBodies
                  \/ aRequest.method = "DELETE" /\ aRequest.body # "\"*\""
          [] aRequest.url = OT_REST_RESOURCE_PATH_NODE_SRP_CLIENT_SERVICE ->
                  /\ aRequest.method \in {"POST", "DELETE"}
                  /\ aRequest.body \notin DOMAIN ServiceBodies
          [] OTHER -> FALSE

\* C23: a mutating request whose body fails validation is answered 400 Bad Request
\* and leaves the state of the library as it was.
C23_ValidationFirst ==
    [][\A c \in Conn :
          Handled(c) /\ InvalidInput(requests'[c]) =>
              /\ responses'[c].code = "400 Bad Request"
              /\ responses'[c].complete
              /\ mInstance' = mInstance
              /\ mIp6Enabled' = mIp6Enabled /\ mThreadEnabled' = mThreadEnabled]_vars

\* C24: when the library has no room left, for a joiner (otCommissionerAddJoiner
\* returns OT_ERROR_NO_BUFS) or for an SRP client service (no free service entry),
\* the request is answered 507 Insufficient Storage.
C24_Exhaustion ==
    [][\A c \in Conn :
          /\ \A b \in DOMAIN JoinerBodies :
                 /\ mInstance.commissioner = "OT_COMMISSIONER_STATE_ACTIVE"
                 /\ Deliver(c, [body |-> b,
                                method |-> "POST",
                                url |-> OT_REST_RESOURCE_PATH_NODE_COMMISSIONER_JOINER],
                            [NoLib EXCEPT !.joiner = "OT_ERROR_NO_BUFS"])
                 => responses'[c].code = "507 Insufficient Storage"
          /\ /\ Handled(c)
             /\ requests'[c].url = OT_REST_RESOURCE_PATH_NODE_SRP_CLIENT_SERVICE
             /\ requests'[c].method = "POST"
             /\ mInstance.buffers = 0
             => responses'[c].code = "507 Insufficient Storage"]_vars

\* the status line of each error kind
StatusLines ==
    ("kStatusOk" :> "200 OK") @@ ("kStatusCreated" :> "201 Created")
    @@ ("kStatusNoContent" :> "204 No Content") @@ ("kStatusBadRequest" :> "400 Bad Request")
    @@ ("kStatusResourceNotFound" :> "404 Not Found")
    @@ ("kStatusMethodNotAllowed" :> "405 Method Not Allowed")
    @@ ("kStatusRequestTimeout" :> "408 Request Timeout")
    @@ ("kStatusConflict" :> "409 Conflict")
    @@ ("kStatusInternalServerError" :> "500 Internal Server Error")
    @@ ("kStatusInsufficientStorage" :> "507 Insufficient Storage")

\* C25: the response written by ErrorHandler for one of the ten error kinds is
\* complete and carries the status line of that kind, in the code and in the body:
\* 200, 201, 204, 400, 404, 405, 408, 409, 500, 507, no two kinds sharing a line.
C25_StatusMapper ==
    /\ DOMAIN StatusLines = HttpStatusCode
    /\ \A c \in Conn :
           responses[c].body.kind = "error" /\ responses[c].body.code \in HttpStatusCode =>
               /\ responses[c].complete
               /\ responses[c].code = StatusLines[responses[c].body.code]
               /\ responses[c].body.message = responses[c].code
               /\ \A k \in HttpStatusCode \ {responses[c].body.code} :
                      GetHttpStatus(k) # responses[c].code
               /\ \A d \in Conn :
                      responses[d].body.kind = "error"
                      /\ responses[d].code = responses[c].code
                      => responses[d].body.code = responses[c].body.code

\* the two connections were answered with the error responses of two kinds
C25_Witness ==
    \E a, b \in Conn :
        /\ responses[a].body = Error2JsonString("kStatusRequestTimeout", "408 Request Timeout")
        /\ responses[b].body = Error2JsonString("kStatusInsufficientStorage",
                                                "507 Insufficient Storage")

\* the names of the values of each enumeration
RoleNames ==
    ("OT_DEVICE_ROLE_DISABLED" :> "disabled") @@ ("OT_DEVICE_ROLE_DETACHED" :> "detached")
    @@ ("OT_DEVICE_ROLE_CHILD" :> "child") @@ ("OT_DEVICE_ROLE_ROUTER" :> "router")
    @@ ("OT_DEVICE_ROLE_LEADER" :> "leader")

CommissionerStateNames ==
    ("OT_COMMISSIONER_STATE_DISABLED" :> "OTBR_COMMISSIONER_STATE_NAME_DISABLED")
    @@ ("OT_COMMISSIONER_STATE_PETITION" :> "OTBR_COMMISSIONER_STATE_NAME_PETITION")
    @@ ("OT_COMMISSIONER_STATE_ACTIVE" :> "OTBR_COMMISSIONER_STATE_NAME_ACTIVE")

SrpServerStateNames ==
    ("OT_SRP_SERVER_STATE_DISABLED" :> "OTBR_SRP_SERVER_STATE_NAME_DISABLED")
    @@ ("OT_SRP_SERVER_STATE_RUNNING" :> "OTBR_SRP_SERVER_STATE_NAME_RUNNING")
    @@ ("OT_SRP_SERVER_STATE_STOPPED" :> "OTBR_SRP_SERVER_STATE_NAME_STOPPED")

SrpClientItemStateNames ==
    ("OT_SRP_CLIENT_ITEM_STATE_TO_ADD" :> "OTBR_SRP_CLIENT_ITEM_STATE_NAME_TO_ADD")
    @@ ("OT_SRP_CLIENT_ITEM_STATE_ADDING" :> "OTBR_SRP_CLIENT_ITEM_STATE_NAME_ADDING")
    @@ ("OT_SRP_CLIENT_ITEM_STATE_TO_REFRESH" :> "OTBR_SRP_CLIENT_ITEM_STATE_NAME_TO_REFRESH")
    @@ ("OT_SRP_CLIENT_ITEM_STATE_REFRESHING" :> "OTBR_SRP_CLIENT_ITEM_STATE_NAME_REFRESHING")
    @@ ("OT_SRP_CLIENT_ITEM_STATE_TO_REMOVE" :> "OTBR_SRP_CLIENT_ITEM_STATE_NAME_TO_REMOVE")
    @@ ("OT_SRP_CLIENT_ITEM_STATE_REMOVING" :> "OTBR_SRP_CLIENT_ITEM_STATE_NAME_REMOVING")
    @@ ("OT_SRP_CLIENT_ITEM_STATE_REGISTERED" :> "OTBR_SRP_CLIENT_ITEM_STATE_NAME_REGISTERED")
    @@ ("OT_SRP_CLIENT_ITEM_STATE_REMOVED" :> "OTBR_SRP_CLIENT_ITEM_STATE_NAME_REMOVED")

\* the name a table gives to a value, empty for a value that is not in the table
NameIn(aTable, aValue) == IF aValue \in DOMAIN aTable THEN aTable[aValue] ELSE ""

\* C28: the name written for a device role, a commissioner state, an SRP server
\* state, an SRP client item state or an error kind is the fixed name of the value
\* when the value is one of the enumeration, and the empty string when it is not.
C28_NamesOrEmpty ==
    [][\A c \in Conn :
          /\ \A role \in DeviceRoles \cup {Unhandled("otDeviceRole")} :
                 Deliver(c, [body |-> "", method |-> "GET",
                             url |-> OT_REST_RESOURCE_PATH_NODE_STATE],
                         [NoLib EXCEPT !.role = role])
                 => responses'[c].body = String2JsonString(NameIn(RoleNames, role))
          /\ Handled(c) /\ requests'[c].url = OT_REST_RESOURCE_PATH_NODE_COMMISSIONER_STATE
                 => responses'[c].body =
                        String2JsonString(NameIn(CommissionerStateNames,
                                                 mInstance.commissioner))
          /\ Handled(c) /\ requests'[c].url = OT_REST_RESOURCE_PATH_NODE_SRP_SERVER_STATE
                 => responses'[c].body =
                        String2JsonString(NameIn(SrpServerStateNames, mInstance.srpServer))
          /\ Handled(c) /\ requests'[c].url = OT_REST_RESOURCE_PATH_NODE_SRP_CLIENT_SERVICE
                 => /\ Cardinality(responses'[c].body.set) = Cardinality(mInstance.services)
                    /\ \A sv \in mInstance.services :
                           \E e \in responses'[c].body.set :
                               /\ e.mInstanceName = sv.mInstanceName
                               /\ e.mName = sv.mName
                               /\ e.state = NameIn(SrpClientItemStateNames, sv.mState)
          /\ responses[c] = NewResponse /\ responses'[c].body.kind = "error"
                 => responses'[c].code = NameIn(StatusLines, responses'[c].body.code)]_vars

\* a commissioner state that no case handles was asked for and given the empty
\* name, and the role of a leader was asked for and named
C28_Witness ==
    \E a, b \in Conn :
        /\ mInstance.commissioner \notin CommissionerStates
        /\ requests[a].url = OT_REST_RESOURCE_PATH_NODE_COMMISSIONER_STATE
        /\ responses[a].body = String2JsonString("")
        /\ requests[b].url = OT_REST_RESOURCE_PATH_NODE_STATE
        /\ responses[b].body = String2JsonString("leader")

\* the records of the cache that are younger than the eviction threshold
Young == {k \in DOMAIN mDiagSet : now - mDiagSet[k].mStartTime < kDiagResetTimeout}

\* C31: handling a request leaves the cache as it is, and a flush leaves in the cache
\* exactly the records younger than kDiagResetTimeout, each with its entries and its
\* time.
C31_YoungRecordsKept ==
    [][/\ (\E c \in Conn : Handled(c)) => mDiagSet' = mDiagSet
       /\ FlushStep => mDiagSet' = [k \in Young |-> mDiagSet[k]]]_vars

\* request b was handled while the cache held two records; its flush evicted the one
\* that an earlier flush had returned and kept the other as it was
C31_Witness ==
    \E a, b \in Conn :
        /\ Flushed(a) /\ Flushed(b)
        /\ flushed[b].time > flushed[a].time
        /\ \E k, j \in DOMAIN flushed[a].set :
              /\ k \notin DOMAIN flushed[b].set
              /\ j \in DOMAIN flushed[b].set
              /\ flushed[b].set[j] = flushed[a].set[j]
              /\ responses[b].startTime >= flushed[a].set[j].mStartTime
              /\ flushed[b].time - flushed[a].set[k].mStartTime >= kDiagResetTimeout

\* C32: when every tick polls all outstanding responses, a diagnostics response that
\* started no later than another is completed no later than it: once the later one
\* is complete the earlier one is complete with a flush instant that is not later,
\* or is due and about to be polled by the same tick.
C32_StartOrder ==
    \A a, b \in Conn :
        /\ responses[a].callback /\ responses[b].callback
        /\ responses[a].startTime <= responses[b].startTime
        /\ Flushed(b)
        => \/ Flushed(a) /\ flushed[a].time <= flushed[b].time
           \/ Pending(a) /\ flushed[b].time = now /\ Deadline(a) <= now

\* two responses started at different instants and were completed by the same tick
C32_Witness ==
    \E a, b \in Conn :
        /\ Flushed(a) /\ Flushed(b)
        /\ responses[a].startTime < responses[b].startTime
        /\ flushed[a].time = flushed[b].time
        /\ flushed[a].set # <<>>

\* the last of the first n replies of the fixed sequence under the key k
LastUnder(k, n) ==
    CHOOSE i \in 1..n :
        /\ KeyRloc(ReplayMessages[i], Len(ReplayMessages[i])) = k
        /\ \A j \in (i + 1)..n : KeyRloc(ReplayMessages[j], Len(ReplayMessages[j])) # k

\* what a flush at the instant t, after n replies of the fixed sequence, returns when
\* no flush came before it: under each key the last reply, if received less than
\* kDiagResetTimeout before t
Undisturbed(t, n) ==
    LET keys == {KeyRloc(ReplayMessages[i], Len(ReplayMessages[i])) : i \in 1..n}
        live == {k \in keys : t - ReplayAt[LastUnder(k, n)] < kDiagResetTimeout}
    IN  [k \in live |->
            [mStartTime |-> ReplayAt[LastUnder(k, n)],
             mDiagContent |-> DiagTlvs(ReplayMessages[LastUnder(k, n)],
                                       Len(ReplayMessages[LastUnder(k, n)]))]]

\* C33: with the replies fixed, the records returned to a request are those of a
\* flush at that instant that no other flush preceded, whatever flushes of other
\* requests came before it.
C33_EvictionUnseen ==
    \A b \in Conn :
        Flushed(b) => flushed[b].set = Undisturbed(flushed[b].time, flushed[b].replies)

\* a flush evicted a record, and a later flush of the other request returned records
C33_Witness ==
    \E a, b \in Conn :
        /\ Flushed(a) /\ Flushed(b)
        /\ flushed[a].time < flushed[b].time
        /\ flushed[a].replies = 2
        /\ Cardinality(DOMAIN flushed[a].set) = 1
        /\ flushed[b].set # <<>>

\* a PUT on the commissioner state resource is handled
CommissionerPut(aConn) ==
    /\ Handled(aConn)
    /\ requests'[aConn].url = OT_REST_RESOURCE_PATH_NODE_COMMISSIONER_STATE
    /\ requests'[aConn].method = "PUT"

\* C36: whatever otCommissionerStart and otCommissionerStop would return, PUT "enable"
\* with the commissioner not disabled and PUT "disable" with the commissioner
\* disabled are answered 200 and leave the commissioner as it is; a body other than
\* "enable" and "disable" is answered 400 and leaves the commissioner as it is.
C36_Idempotent ==
    [][\A c \in Conn :
          CommissionerPut(c) =>
              LET body     == requests'[c].body
                  disabled == mInstance.commissioner = "OT_COMMISSIONER_STATE_DISABLED"
              IN  /\ \/ body = "\"enable\"" /\ ~disabled
                     \/ body = "\"disable\"" /\ disabled
                     => responses'[c].code = "200 OK" /\ mInstance' = mInstance
                  /\ body \notin {"\"enable\"", "\"disable\""}
                     => responses'[c].code = "400 Bad Request" /\ mInstance' = mInstance]_vars

\* two requests enabled the commissioner and both were answered 200: when the later
\* one came the commissioner was not disabled
C36_Witness ==
    \E c, d \in Conn :
        /\ c # d
        /\ \A e \in {c, d} :
               /\ requests[e].url = OT_REST_RESOURCE_PATH_NODE_COMMISSIONER_STATE
               /\ requests[e].method = "PUT"
               /\ requests[e].body = "\"enable\""
               /\ responses[e].code = "200 OK"
        /\ mInstance.commissioner # "OT_COMMISSIONER_STATE_DISABLED"

\* a POST on the SRP client service resource is handled
ServicePost(aConn) ==
    /\ Handled(aConn)
    /\ requests'[aConn].url = OT_REST_RESOURCE_PATH_NODE_SRP_CLIENT_SERVICE
    /\ requests'[aConn].method = "POST"

\* the entries of the pool that are taken
Allocated(aInstance) == ServiceBuffers - aInstance.buffers

\* C38: a POST on the SRP client service resource that is answered 200 takes one
\* entry of the pool and adds one service; answered anything else it takes no entry
\* and adds no service.  So the entries taken are as many as the services.
C38_NoLeak ==
    [][/\ Allocated(mInstance) = Cardinality(mInstance.services)
       /\ Allocated(mInstance') = Cardinality(mInstance'.services)
       /\ \A c \in Conn :
              ServicePost(c) =>
                  IF responses'[c].code = "200 OK"
                  THEN /\ Allocated(mInstance') = Allocated(mInstance) + 1
                       /\ Cardinality(mInstance'.services)
                              = Cardinality(mInstance.services) + 1
                  ELSE /\ Allocated(mInstance') = Allocated(mInstance)
                       /\ mInstance'.services = mInstance.services]_vars

\* one POST added a service and another was refused by the library
C38_Witness ==
    \E c, d \in Conn :
        /\ \A e \in {c, d} :
               /\ requests[e].url = OT_REST_RESOURCE_PATH_NODE_SRP_CLIENT_SERVICE
               /\ requests[e].method = "POST"
        /\ responses[c].code = "200 OK"
        /\ responses[d].code = "409 Conflict"
        /\ Allocated(mInstance) = Cardinality(mInstance.services)

\* a PUT on the resource of the dataset aType is handled
DatasetPutOn(aConn, aType) ==
    /\ Handled(aConn)
    /\ requests'[aConn].method = "PUT"
    /\ requests'[aConn].url = IF aType = "kActive"
                              THEN OT_REST_RESOURCE_PATH_NODE_DATASET_ACTIVE
                              ELSE OT_REST_RESOURCE_PATH_NODE_DATASET_PENDING

\* the dataset aType of the instance: whether it is there, and what was written
Stored(aInstance, aType) ==
    IF aType = "kActive"
    THEN <<aInstance.active, aInstance.activeTlvs>>
    ELSE <<aInstance.pending, aInstance.pendingTlvs>>

\* C37: a PUT on a dataset resource is answered 201, 200, 400, 409 or 500; 201 when
\* there was no dataset of the type and 200 when there was one, and in both cases the
\* dataset is then the one written; answered 400, 409 or 500 it leaves the instance
\* as it was.
C37_CreatedOrUpdated ==
    [][\A c \in Conn, t \in {"kActive", "kPending"} :
          DatasetPutOn(c, t) =>
              LET code == responses'[c].code
              IN  /\ code \in {"200 OK", "201 Created", "400 Bad Request", "409 Conflict",
                               "500 Internal Server Error"}
                  /\ code = "201 Created" => ~Stored(mInstance, t)[1]
                  /\ code = "200 OK" => Stored(mInstance, t)[1]
                  /\ code \in {"200 OK", "201 Created"} =>
                         Stored(mInstance', t) = <<TRUE, requests'[c].body>>
                  /\ code \notin {"200 OK", "201 Created"} => mInstance' = mInstance]_vars

\* a dataset was created by one request, updated by another, and holds what the
\* latter wrote
C37_Witness ==
    \E c, d \in Conn :
        /\ requests[c].url = requests[d].url
        /\ requests[c].url = OT_REST_RESOURCE_PATH_NODE_DATASET_PENDING
        /\ requests[c].method = "PUT" /\ requests[d].method = "PUT"
        /\ responses[c].code = "201 Created"
        /\ responses[d].code = "200 OK"
        /\ requests[c].body # requests[d].body
        /\ mInstance.pending /\ mInstance.pendingTlvs = requests[d].body

\* a PUT on the SRP client host resource is handled
HostPutBy(aConn) ==
    /\ Handled(aConn)
    /\ requests'[aConn].url = OT_REST_RESOURCE_PATH_NODE_SRP_CLIENT_HOST
    /\ requests'[aConn].method = "PUT"

C35_DeleteInOrder ==
    [][\A c \in Conn, r1, r2 \in SetResults :
          Deliver(c, [body |-> "", method |-> "DELETE", url |-> OT_REST_RESOURCE_PATH_NODE],
                  [NoLib EXCEPT !.detach = r1, !.erase = r2]) =>
              CASE r1 # "OT_ERROR_NONE" ->
                       /\ responses'[c].code = "409 Conflict"
                       /\ mInstance' = mInstance
                       /\ mThreadEnabled' = mThreadEnabled /\ mIp6Enabled' = mIp6Enabled
                [] r1 = "OT_ERROR_NONE" /\ r2 # "OT_ERROR_NONE" ->
                       /\ responses'[c].code = "500 Internal Server Error"
                       /\ mInstance' = mInstance
                [] OTHER ->
                       /\ responses'[c].code = "200 OK"
                       /\ mInstance' = NoInstance]_vars

\* a DELETE whose erasure failed and a DELETE whose Detach failed were answered 500
\* and 409, and the instance still has its host, its commissioner and its dataset
C35_Witness ==
    \E c, d \in Conn :
        /\ \A e \in {c, d} :
               /\ requests[e].url = OT_REST_RESOURCE_PATH_NODE
               /\ requests[e].method = "DELETE"
        /\ responses[c].code = "500 Internal Server Error"
        /\ responses[d].code = "409 Conflict"
        /\ mInstance.hostName = "br"
        /\ mInstance.commissioner = "OT_COMMISSIONER_STATE_ACTIVE"
        /\ mInstance.active

====
